---- MODULE Spec2Model ----
(***************************************************************************)
(* A model of backend/main.py of scoop-easy: the SQLite audit log          *)
(* (append_log, read_logs, clear_logs), the audit middleware log_requests  *)
(* with its classifier get_operation_info and its message extractor        *)
(* extract_scoop_output, and the external command invocations of the route *)
(* handlers (run_scoop_command and the inline search invocations).         *)
(*                                                                         *)
(* Text is a sequence of pieces (TLA+ strings are atomic): "scoop list" is *)
(* <<"scoop", " ", "list">>.  Bytes on the wire are sequences of JSON      *)
(* tokens; json_loads parses them.                                         *)
(***************************************************************************)
EXTENDS Integers, Sequences, FiniteSets, TLC

\* ------------------------------------------------------------ bounds
\* Number of request tasks that run concurrently (specification SpecConc).
MaxReqs == 2
\* Number of requests served one after the other (specification Spec).
MaxServed == 2
\* Number of append_log calls in the audit-log specification.
MaxAppends == 3
\* Largest LIMIT passed to read_logs.
MaxLimit == 3
\* Number of distinct values datetime.now() takes.
MaxClock == 2

\* ------------------------------------------------------------ text
Min(a, b) == IF a < b THEN a ELSE b

RECURSIVE Concat(_)
\* b"".join(chunks) / "".join(texts): a sequence of sequences flattened.
Concat(ss) == IF ss = <<>> THEN <<>> ELSE Head(ss) \o Concat(Tail(ss))

RECURSIVE Join(_, _)
\* sep.join(items) for a list of texts.
Join(sep, items) ==
    IF items = <<>> THEN <<>>
    ELSE IF Len(items) = 1 THEN items[1]
    ELSE items[1] \o sep \o Join(sep, Tail(items))

SP == <<" ">>

\* ------------------------------------------------------------ JSON values
\* Python values as json.loads produces them.  Each type has its own field
\* name, so two values of different types are different records.
JNull == [t |-> "null"]
JBool(b) == [t |-> "bool", b |-> b]
JNum(n) == [t |-> "num", n |-> n]
JStr(s) == [t |-> "str", s |-> s]
JList(items) == [t |-> "list", items |-> items]
\* A dict: its items, and its keys in insertion order.
JMap(m, keys) == [t |-> "map", m |-> m, keys |-> keys]
EmptyMap == JMap(<<>>, <<>>)

\* `v is not None` instead of Python truthiness.
TruthyNotNone(v) == v.t # "null"

\* bool(v): Python truthiness.
Truthy(v) ==
    CASE v.t = "null" -> FALSE
      [] v.t = "bool" -> v.b
      [] v.t = "num" -> v.n # "0"
      [] v.t = "str" -> v.s # <<>>
      [] v.t = "list" -> v.items # <<>>
      [] v.t = "map" -> v.keys # <<>>

\* ------------------------------------------------------------ JSON bytes
\* A body is a sequence of tokens.  Kinds: "p" punctuation, "s" a string
\* literal, "n" a number literal, "l" null/true/false, "x" bytes that are no
\* JSON token.  v is always a text; a number literal is its digits ("0", "5").
P(c) == [k |-> "p", v |-> <<c>>]
S(txt) == [k |-> "s", v |-> txt]
N(d) == [k |-> "n", v |-> <<d>>]
L(w) == [k |-> "l", v |-> <<w>>]
X(w) == [k |-> "x", v |-> <<w>>]

ParseFail == [ok |-> FALSE]
ParseOk(val, next) == [ok |-> TRUE, val |-> val, next |-> next]

RECURSIVE ParseValue(_, _)
RECURSIVE ParseItems(_, _, _)
RECURSIVE ParseMembers(_, _, _)

\* One JSON value starting at token i.
ParseValue(toks, i) ==
    IF i > Len(toks) THEN ParseFail
    ELSE LET c == toks[i] IN
      CASE c.k = "l" ->
              ParseOk(IF c.v = <<"null">> THEN JNull ELSE JBool(c.v = <<"true">>), i + 1)
        [] c.k = "n" -> ParseOk(JNum(c.v[1]), i + 1)
        [] c.k = "s" -> ParseOk(JStr(c.v), i + 1)
        [] c = P("[") ->
              IF i + 1 <= Len(toks) /\ toks[i + 1] = P("]")
              THEN ParseOk(JList(<<>>), i + 2)
              ELSE ParseItems(toks, i + 1, <<>>)
        [] c = P("{") ->
              IF i + 1 <= Len(toks) /\ toks[i + 1] = P("}")
              THEN ParseOk(EmptyMap, i + 2)
              ELSE ParseMembers(toks, i + 1, EmptyMap)
        [] OTHER -> ParseFail

\* The elements of an array, after "[" or ",".
ParseItems(toks, i, acc) ==
    LET r == ParseValue(toks, i) IN
    IF ~r.ok THEN ParseFail
    ELSE IF r.next > Len(toks) THEN ParseFail
    ELSE IF toks[r.next] = P(",") THEN ParseItems(toks, r.next + 1, Append(acc, r.val))
    ELSE IF toks[r.next] = P("]") THEN ParseOk(JList(Append(acc, r.val)), r.next + 1)
    ELSE ParseFail

\* The members of an object, after "{" or ",": a repeated key keeps its last value.
ParseMembers(toks, i, acc) ==
    IF i + 1 > Len(toks) \/ toks[i].k # "s" \/ toks[i + 1] # P(":") THEN ParseFail
    ELSE LET r == ParseValue(toks, i + 2)
             key == toks[i].v
             m == IF r.ok
                  THEN JMap((key :> r.val) @@ acc.m,
                            IF key \in DOMAIN acc.m THEN acc.keys ELSE Append(acc.keys, key))
                  ELSE acc
         IN IF ~r.ok THEN ParseFail
            ELSE IF r.next > Len(toks) THEN ParseFail
            ELSE IF toks[r.next] = P(",") THEN ParseMembers(toks, r.next + 1, m)
            ELSE IF toks[r.next] = P("}") THEN ParseOk(m, r.next + 1)
            ELSE ParseFail

\* json.loads(body_bytes): the value, or a JSONDecodeError.
json_loads(toks) ==
    LET r == ParseValue(toks, 1) IN
    IF r.ok /\ r.next = Len(toks) + 1
    THEN [raised |-> FALSE, val |-> r.val]
    ELSE [raised |-> TRUE, exc |-> <<"JSONDecodeError">>]

\* The text of one token, as bytes.decode gives it.
TokText(tok) == IF tok.k = "s" THEN <<"\"">> \o tok.v \o <<"\"">> ELSE tok.v

\* response_body.decode("utf-8", errors="replace")
Decode(toks) == Concat([i \in 1..Len(toks) |-> TokText(toks[i])])

RECURSIVE DumpValue(_)
RECURSIVE DumpItems(_)
RECURSIVE DumpMembers(_, _)
\* json.dumps(v) as JSONResponse renders a handler's return value.
DumpValue(v) ==
    CASE v.t = "null" -> <<L("null")>>
      [] v.t = "bool" -> <<L(IF v.b THEN "true" ELSE "false")>>
      [] v.t = "num" -> <<N(v.n)>>
      [] v.t = "str" -> <<S(v.s)>>
      [] v.t = "list" -> <<P("[")>> \o DumpItems(v.items) \o <<P("]")>>
      [] v.t = "map" -> <<P("{")>> \o DumpMembers(v.m, v.keys) \o <<P("}")>>
DumpItems(items) ==
    IF items = <<>> THEN <<>>
    ELSE DumpValue(Head(items))
         \o (IF Len(items) > 1 THEN <<P(",")>> ELSE <<>>) \o DumpItems(Tail(items))
DumpMembers(m, keys) ==
    IF keys = <<>> THEN <<>>
    ELSE <<S(Head(keys)), P(":")>> \o DumpValue(m[Head(keys)])
         \o (IF Len(keys) > 1 THEN <<P(",")>> ELSE <<>>) \o DumpMembers(m, Tail(keys))

RECURSIVE Dict(_)
\* A dict literal {k1: v1, k2: v2, ...} from its <<key, value>> pairs.
Dict(pairs) ==
    IF pairs = <<>> THEN EmptyMap
    ELSE LET rest == Dict(SubSeq(pairs, 1, Len(pairs) - 1))
             kv == pairs[Len(pairs)]
         IN JMap((kv[1] :> kv[2]) @@ rest.m,
                 IF kv[1] \in DOMAIN rest.m THEN rest.keys ELSE Append(rest.keys, kv[1]))

\* ------------------------------------------------------------ console text
\* Console output is a text whose pieces are words, " " and "\n"; every keyword the
\* parsers look for ("Installed", "Name", "-", "Held", "WARN", "held", ...) is a
\* piece of its own wherever it occurs, so startswith(kw) looks at the first piece
\* and `kw in line` at every piece.
IsSpace(c) == c \in {" ", "\n", "\t", "\r"}

RECURSIVE LStripWs(_)
LStripWs(txt) == IF txt # <<>> /\ IsSpace(Head(txt)) THEN LStripWs(Tail(txt)) ELSE txt
RECURSIVE RStripWs(_)
RStripWs(txt) == IF txt # <<>> /\ IsSpace(txt[Len(txt)])
                 THEN RStripWs(SubSeq(txt, 1, Len(txt) - 1)) ELSE txt
\* str.strip(): leading and trailing whitespace removed.
StripWs(txt) == LStripWs(RStripWs(txt))

RECURSIVE SplitOn(_, _, _)
\* txt.split(sep) for a one-piece separator: cur is the part being collected.
SplitOn(txt, sep, cur) ==
    IF txt = <<>> THEN <<cur>>
    ELSE IF Head(txt) = sep THEN <<cur>> \o SplitOn(Tail(txt), sep, <<>>)
    ELSE SplitOn(Tail(txt), sep, Append(cur, Head(txt)))
\* output.strip().split("\n")
Lines(output) == SplitOn(StripWs(output), "\n", <<>>)

RECURSIVE Words(_, _)
\* line.split(): the maximal runs of non-whitespace pieces.
Words(txt, cur) ==
    IF txt = <<>> THEN (IF cur = <<>> THEN <<>> ELSE <<cur>>)
    ELSE IF IsSpace(Head(txt))
         THEN (IF cur = <<>> THEN <<>> ELSE <<cur>>) \o Words(Tail(txt), <<>>)
    ELSE Words(Tail(txt), Append(cur, Head(txt)))
Split(line) == Words(line, <<>>)

StartsWith(line, kw) == line # <<>> /\ line[1] = kw
In(kw, line) == \E i \in 1..Len(line) : line[i] = kw
\* str.lower() of one piece, for the pieces the parsers compare in lower case.
LowerPiece(c) ==
    CASE c \in {"Held", "HELD", "held"} -> "held"
      [] c \in {"No", "no"} -> "no"
      [] c \in {"Apps", "apps"} -> "apps"
      [] c \in {"Bucket", "bucket"} -> "bucket"
      [] c \in {"Git", "GIT", "git"} -> "git"
      [] c \in {"Vim", "VIM", "vim"} -> "vim"
      [] OTHER -> c
Lower(line) == [i \in 1..Len(line) |-> LowerPiece(line[i])]

\* ------------------------------------------------------------ output parsers

RECURSIVE parse_list_lines(_)
\* The loop of parse_list_output over the lines.
parse_list_lines(lines) ==
    IF lines = <<>> THEN <<>>
    ELSE LET line == StripWs(Head(lines))
             parts == Split(line)
             rest == parse_list_lines(Tail(lines))
         IN IF line = <<>> \/ StartsWith(line, "Installed") \/ StartsWith(line, "Name")
               \/ StartsWith(line, "-")
            THEN rest
            ELSE IF Len(parts) >= 2
            THEN <<[name |-> parts[1], version |-> parts[2],
                    bucket |-> IF Len(parts) > 2 THEN parts[3] ELSE <<"main">>,
                    updated |-> IF Len(parts) > 4 THEN JStr(parts[4] \o SP \o parts[5])
                                ELSE IF Len(parts) > 3 THEN JStr(parts[4]) ELSE JNull,
                    held |-> In("Held", line)]>> \o rest
            ELSE rest

\* parse_list_output(output)
parse_list_output(output) == parse_list_lines(Lines(output))

RECURSIVE parse_status_keep_first(_, _)
\* The loop of parse_status_output with `updates.setdefault(name, latest)`: a repeated
\* name keeps its first value.
parse_status_keep_first(lines, updates) ==
    IF lines = <<>> THEN updates
    ELSE LET line == StripWs(Head(lines))
             parts == Split(line)
         IN IF line = <<>> \/ In("WARN", line) \/ In("Name", line) \/ StartsWith(line, "-")
               \/ In("held", Lower(line))
            THEN parse_status_keep_first(Tail(lines), updates)
            ELSE IF Len(parts) >= 3
            THEN parse_status_keep_first(Tail(lines), updates @@ (parts[1] :> parts[3]))
            ELSE parse_status_keep_first(Tail(lines), updates)

RECURSIVE parse_status_lines(_, _)
\* The loop of parse_status_output: updates[name] = latest, a repeated name overwritten.
parse_status_lines(lines, updates) ==
    IF lines = <<>> THEN updates
    ELSE LET line == StripWs(Head(lines))
             parts == Split(line)
         IN IF line = <<>> \/ In("WARN", line) \/ In("Name", line) \/ StartsWith(line, "-")
               \/ In("held", Lower(line))
            THEN parse_status_lines(Tail(lines), updates)
            ELSE IF Len(parts) >= 3
            THEN parse_status_lines(Tail(lines), (parts[1] :> parts[3]) @@ updates)
            ELSE parse_status_lines(Tail(lines), updates)

\* parse_status_output(output): a mapping name -> latest version.
parse_status_output(output) == parse_status_lines(Lines(output), <<>>)

\* ------------------------------------------------------------ Python values as text
RECURSIVE PyStr(_)
\* str(v), as an f-string interpolates it: a str is its own text, any other value
\* its repr.
PyStr(v) ==
    CASE v.t = "str" -> v.s
      [] v.t = "num" -> <<v.n>>
      [] v.t = "bool" -> IF v.b THEN <<"True">> ELSE <<"False">>
      [] v.t = "null" -> <<"None">>
      [] v.t = "list" ->
            <<"[">> \o Join(<<",", " ">>, [i \in 1..Len(v.items) |->
                 IF v.items[i].t = "str" THEN <<"'">> \o v.items[i].s \o <<"'">>
                 ELSE PyStr(v.items[i])]) \o <<"]">>
      [] v.t = "map" ->
            <<"{">> \o Join(<<",", " ">>, [i \in 1..Len(v.keys) |->
                 <<"'">> \o v.keys[i] \o <<"'", ":", " ">> \o
                 (IF v.m[v.keys[i]].t = "str" THEN <<"'">> \o v.m[v.keys[i]].s \o <<"'">>
                  ELSE PyStr(v.m[v.keys[i]]))]) \o <<"}">>

\* ' '.join(apps): apps is whatever body.get("apps", []) gave.  Joining iterates
\* a list (every item must be a str), a str (its characters) or a dict (its keys);
\* anything else, or a list item that is no str, is a TypeError.
JoinApps(apps) ==
    CASE apps.t = "list" ->
            IF \A i \in 1..Len(apps.items) : apps.items[i].t = "str"
            THEN [raised |-> FALSE, exc |-> <<>>,
                  text |-> Join(SP, [i \in 1..Len(apps.items) |-> apps.items[i].s])]
            ELSE [raised |-> TRUE, exc |-> <<"TypeError">>, text |-> <<>>]
      [] apps.t = "str" ->
            [raised |-> FALSE, exc |-> <<>>,
             text |-> Join(SP, [i \in 1..Len(apps.s) |-> <<apps.s[i]>>])]
      [] apps.t = "map" ->
            [raised |-> FALSE, exc |-> <<>>, text |-> Join(SP, apps.keys)]
      [] OTHER -> [raised |-> TRUE, exc |-> <<"TypeError">>, text |-> <<>>]

\* ------------------------------------------------------------ classification
\* A path is the sequence of its segments: "/api/apps/git/hold" is
\* <<"api", "apps", "git", "hold">>, so path.split("/")[3] is segment 3.
StartsWith2(path, a, b) == Len(path) >= 3 /\ path[1] = a /\ path[2] = b
EndsWith(path, last) == Len(path) >= 1 /\ path[Len(path)] = last

NoOperation == [kind |-> "none", operation |-> <<>>, cmd |-> <<>>, exc |-> <<>>]
Operation(label, cmd) == [kind |-> "op", operation |-> label, cmd |-> cmd, exc |-> <<>>]
Raised(exc) == [kind |-> "raise", operation |-> <<>>, cmd |-> <<>>, exc |-> exc]

\* OPERATION_MAP: the exact (method, path) pairs; a pair mapped to None is not audited.
OPERATION_MAP_KEYS ==
    { <<"GET", <<"api", "apps">>>>, <<"GET", <<"api", "buckets">>>>,
      <<"GET", <<"api", "logs">>>>, <<"DELETE", <<"api", "logs">>>>,
      <<"GET", <<"api", "settings">>>>, <<"POST", <<"api", "settings">>>> }

OPERATION_MAP(method, path) ==
    CASE <<method, path>> = <<"GET", <<"api", "apps">>>> ->
            Operation(<<"query installed apps">>, <<"scoop", " ", "list">>)
      [] <<method, path>> = <<"GET", <<"api", "buckets">>>> ->
            Operation(<<"query buckets">>, <<"scoop", " ", "bucket", " ", "list">>)
      [] OTHER -> NoOperation

\* body.get(key, default) on a dict.
Get(body, key, default) == IF key \in DOMAIN body.m THEN body.m[key] ELSE default

\* The batch paths classified by the single-app pattern: the segment "hold" of the
\* path taken as the name of the app.
BatchAsSingleApp(label, sub, body) == Operation(label, <<"scoop", " ", sub, " ", "hold">>)

\* The batch operations: f"scoop <sub> {' '.join(apps)}" over body.get("apps", []).
BatchOperation(label, sub, body) ==
    IF body.t # "map" THEN Raised(<<"AttributeError">>)
    ELSE LET j == JoinApps(Get(body, <<"apps">>, JList(<<>>)))
         IN IF j.raised THEN Raised(j.exc)
            ELSE Operation(label, <<"scoop", " ", sub, " ">> \o j.text)

\* get_operation_info(method, path, query_params, body)
get_operation_info(method, path, query_params, body) ==
    IF <<method, path>> \in OPERATION_MAP_KEYS THEN OPERATION_MAP(method, path)
    ELSE IF method = "GET" /\ StartsWith2(path, "api", "apps") /\ EndsWith(path, "versions")
    THEN Operation(<<"query versions">>, <<"scoop", " ", "search", " ", path[3]>>)
    ELSE IF method = "GET" /\ StartsWith2(path, "api", "apps") /\ EndsWith(path, "related")
    THEN Operation(<<"query related apps">>, <<"read", " ", path[3], " ", "manifest.json">>)
    ELSE IF method = "GET" /\ StartsWith2(path, "api", "apps") /\ EndsWith(path, "info")
    THEN Operation(<<"view info">>, <<"read", " ", path[3], " ", "manifest.json">>)
    ELSE IF method = "GET" /\ path = <<"api", "search">> /\ "q" \in DOMAIN query_params
    THEN Operation(<<"search apps">>, <<"scoop", " ", "search", " ">> \o query_params["q"])
    ELSE IF method = "POST" /\ path = <<"api", "apps", "update">>
    THEN BatchOperation(<<"update apps">>, "update", body)
    ELSE IF method = "POST" /\ path = <<"api", "apps", "uninstall">>
    THEN BatchOperation(<<"uninstall apps">>, "uninstall", body)
    ELSE IF method = "POST" /\ path = <<"api", "apps", "install">>
    THEN IF body.t # "map" THEN Raised(<<"AttributeError">>)
         ELSE LET name == IF "name" \in DOMAIN query_params
                          THEN query_params["name"] ELSE <<>>
                  bucket == Get(body, <<"bucket">>, JStr(<<>>))
              IN Operation(<<"install app">>,
                           IF Truthy(bucket)
                           THEN <<"scoop", " ", "install", " ">> \o PyStr(bucket)
                                    \o <<"/">> \o name
                           ELSE <<"scoop", " ", "install", " ">> \o name)
    ELSE IF method = "POST" /\ path = <<"api", "buckets">>
    THEN IF body.t # "map" THEN Raised(<<"AttributeError">>)
         ELSE LET name == Get(body, <<"name">>, JStr(<<>>))
                  url == Get(body, <<"url">>, JStr(<<>>))
              IN Operation(<<"add bucket">>,
                           IF Truthy(url)
                           THEN StripWs(<<"scoop", " ", "bucket", " ", "add", " ">>
                                      \o PyStr(name) \o SP \o PyStr(url))
                           ELSE <<"scoop", " ", "bucket", " ", "add", " ">> \o PyStr(name))
    ELSE IF method = "POST" /\ path = <<"api", "apps", "hold">>
    THEN BatchOperation(<<"hold apps">>, "hold", body)
    ELSE IF method = "POST" /\ StartsWith2(path, "api", "apps") /\ EndsWith(path, "hold")
    THEN Operation(<<"hold apps">>, <<"scoop", " ", "hold", " ", path[3]>>)
    ELSE IF method = "POST" /\ StartsWith2(path, "api", "apps") /\ EndsWith(path, "reset")
    THEN IF body.t # "map" THEN Raised(<<"AttributeError">>)
         ELSE LET version == Get(body, <<"version">>, JNull)
                  target_app == Get(body, <<"target_app">>, JNull)
              IN IF Truthy(target_app)
                 THEN Operation(<<"switch version">>,
                                <<"scoop", " ", "reset", " ">> \o PyStr(target_app))
                 ELSE IF Truthy(version)
                 THEN Operation(<<"switch version">>,
                                <<"scoop", " ", "reset", " ", path[3], "@">> \o PyStr(version))
                 ELSE NoOperation
    ELSE IF method = "DELETE" /\ path = <<"api", "apps", "hold">>
    THEN BatchOperation(<<"unhold apps">>, "unhold", body)
    ELSE IF method = "DELETE" /\ StartsWith2(path, "api", "apps") /\ EndsWith(path, "hold")
    THEN Operation(<<"unhold apps">>, <<"scoop", " ", "unhold", " ", path[3]>>)
    ELSE IF method = "DELETE" /\ StartsWith2(path, "api", "buckets")
    THEN Operation(<<"remove bucket">>, <<"scoop", " ", "bucket", " ", "rm", " ", path[3]>>)
    ELSE NoOperation

\* ------------------------------------------------------------ message extraction
Returned(val) == [raised |-> FALSE, exc |-> <<>>, val |-> val]
Threw(exc) == [raised |-> TRUE, exc |-> exc, val |-> JNull]

\* `key in data` for a parsed body: a dict tests its keys, a list its items, a str
\* its substrings; any other value is not iterable (TypeError).
Contains(data, key) ==
    CASE data.t = "map" -> key \in DOMAIN data.m
      [] data.t = "list" -> \E i \in 1..Len(data.items) : data.items[i] = JStr(key)
      [] data.t = "str" ->
            \E i \in 1..Len(data.s) :
                i + Len(key) - 1 <= Len(data.s) /\ SubSeq(data.s, i, i + Len(key) - 1) = key
      [] OTHER -> FALSE
Iterable(data) == data.t \in {"map", "list", "str"}

\* extract_scoop_output(response_body)
extract_scoop_output(response_body) ==
    IF response_body = <<>> THEN Returned(JStr(<<>>))
    ELSE LET j == json_loads(response_body) IN
    IF j.raised THEN Returned(JStr(Decode(response_body)))
    ELSE LET data == j.val IN
    IF ~Iterable(data) THEN Threw(<<"TypeError">>)
    ELSE IF Contains(data, <<"message">>)
    THEN IF data.t = "map" THEN Returned(data.m[<<"message">>]) ELSE Threw(<<"TypeError">>)
    ELSE IF Contains(data, <<"detail">>)
    THEN IF data.t = "map" THEN Returned(data.m[<<"detail">>]) ELSE Threw(<<"TypeError">>)
    ELSE IF Contains(data, <<"results">>)
    THEN IF data.t # "map" THEN Threw(<<"TypeError">>)
         ELSE LET results == data.m[<<"results">>] IN
              IF results.t = "list" /\ results.items # <<>>
              THEN IF results.items[1].t = "map"
                   THEN Returned(Get(results.items[1], <<"message">>, JStr(<<>>)))
                   ELSE Threw(<<"AttributeError">>)
              ELSE Returned(JStr(<<>>))
    ELSE Returned(JStr(<<>>))

\* ------------------------------------------------------------ state
VARIABLES
    logs,             \* table logs of logs.db: a set of rows, keyed by id
    sqlite_sequence,  \* AUTOINCREMENT: the largest id ever given to a row of logs
    clock,            \* datetime.now()
    hist,             \* history: the entries appended since the last clear, oldest first
    lastRead,         \* history: the last read_logs call and what it returned
    lastOp,           \* history: the last audit-log operation
    req,              \* the request tasks of log_requests: per task, its locals
    served,           \* number of requests received so far
    cmd,              \* one call of a route handler and the processes it launched
    traffic,          \* the environment: which requests clients send ("all" kinds or
                      \* the "classified" ones), the tasks that serve them and how
                      \* many requests come
    fn                \* one call of a function of the module on its own: the function,
                      \* its arguments and what it returned or raised

\* No function called on its own.
IdleFn == [pc |-> "idle", name |-> "", input |-> <<>>, out |-> <<>>]


\* ------------------------------------------------------------ audit log
\* init_log_db: CREATE TABLE IF NOT EXISTS logs (id INTEGER PRIMARY KEY AUTOINCREMENT, ...)
init_log_db == [rows |-> {}, seq |-> 0]

\* The database file as one value.
DB == [rows |-> logs, seq |-> sqlite_sequence]

\* sqlite3 binds None, int, float, str and bytes; a list or a dict raises.
Bindable(v) == v.t \in {"null", "bool", "num", "str"}

\* A bound value stored in a TEXT column (column affinity converts numbers to text).
SqlText(v) ==
    CASE v.t = "str" -> v.s
      [] v.t = "num" -> <<v.n>>
      [] v.t = "bool" -> IF v.b THEN <<"1">> ELSE <<"0">>
      [] OTHER -> <<>>

\* append_log with sqlite's DEFAULT id and a UNIQUE(time): an entry whose timestamp
\* is already stored is dropped.
append_log_unique_time(db, now, operation, command, success, message) ==
    LET m == IF Truthy(message) THEN message ELSE JStr(<<>>)
        row == [id |-> db.seq + 1, time |-> now, operation |-> operation,
                command |-> command, success |-> IF success THEN 1 ELSE 0,
                message |-> SqlText(m)]
    IN IF ~Bindable(m)
       THEN [raised |-> TRUE, exc |-> <<"Error binding parameter 4">>, db |-> db]
       ELSE IF \E r \in db.rows : r.time = now
       THEN [raised |-> FALSE, exc |-> <<>>, db |-> db]
       ELSE [raised |-> FALSE, exc |-> <<>>,
             db |-> [rows |-> db.rows \cup {row}, seq |-> db.seq + 1]]

\* append_log(operation, command, success, message): INSERT one row and commit.
\* message is any Python value: `message or ""`, then the sqlite binding.
append_log(db, now, operation, command, success, message) ==
    LET m == IF Truthy(message) THEN message ELSE JStr(<<>>)
        row == [id |-> db.seq + 1, time |-> now, operation |-> operation,
                command |-> command, success |-> IF success THEN 1 ELSE 0,
                message |-> SqlText(m)]
    IN IF ~Bindable(m)
       THEN [raised |-> TRUE, exc |-> <<"Error binding parameter 4">>, db |-> db]
       ELSE [raised |-> FALSE, exc |-> <<>>,
             db |-> [rows |-> db.rows \cup {row}, seq |-> db.seq + 1]]

RECURSIVE OrderByIdDesc(_)
\* ORDER BY id DESC
OrderByIdDesc(rs) ==
    IF rs = {} THEN <<>>
    ELSE LET top == CHOOSE r \in rs : \A q \in rs : q.id <= r.id
         IN <<top>> \o OrderByIdDesc(rs \ {top})

RECURSIVE OrderByTimeDesc(_)
\* ORDER BY time DESC (the index idx_logs_time): equal times come in id order.
OrderByTimeDesc(rs) ==
    IF rs = {} THEN <<>>
    ELSE LET top == CHOOSE r \in rs :
                      \A q \in rs : q.time < r.time \/ (q.time = r.time /\ q.id >= r.id)
         IN <<top>> \o OrderByTimeDesc(rs \ {top})

\* LIMIT n: a negative n is no limit (SQLite).
Limit(s, n) == IF n < 0 THEN s ELSE SubSeq(s, 1, Min(n, Len(s)))

\* One row as the dict read_logs builds: no id, success as a bool.
RowDict(r) == [time |-> r.time, operation |-> r.operation, command |-> r.command,
               success |-> r.success # 0, message |-> r.message]

\* read_logs ordering by the timestamp instead of the id.
read_logs_by_time(db, limit) ==
    LET s == Limit(OrderByTimeDesc(db.rows), limit)
    IN [i \in 1..Len(s) |-> RowDict(s[i])]

\* read_logs(limit): SELECT ... ORDER BY id DESC LIMIT ?
read_logs(db, limit) ==
    LET s == Limit(OrderByIdDesc(db.rows), limit)
    IN [i \in 1..Len(s) |-> RowDict(s[i])]

\* clear_logs deleting all rows but the newest.
clear_logs_keep_newest(db) ==
    [rows |-> {r \in db.rows : \A q \in db.rows : q.id <= r.id}, seq |-> db.seq]

\* clear_logs(): DELETE FROM logs (sqlite_sequence keeps its value).
clear_logs(db) == [rows |-> {}, seq |-> db.seq]

\* ------------------------------------------------------------ external commands
\* How a launched command ends: it exits with its output and exit code, it is still
\* running when the timeout expires, or it could not be started.
Exited(stdout, stderr, returncode) ==
    [kind |-> "exit", stdout |-> stdout, stderr |-> stderr, returncode |-> returncode,
     exc |-> <<>>]
StillRunning ==
    [kind |-> "timeout", stdout |-> <<>>, stderr |-> <<>>, returncode |-> 0, exc |-> <<>>]
LaunchFailed(exc) ==
    [kind |-> "launch", stdout |-> <<>>, stderr |-> <<>>, returncode |-> 0, exc |-> exc]

\* What a handler returns or raises.
Return(value) ==
    [kind |-> "return", value |-> value, status_code |-> 200, detail |-> <<>>]
HTTPException(status_code, detail) ==
    [kind |-> "http", value |-> JNull, status_code |-> status_code, detail |-> detail]
Raise(exc) ==
    [kind |-> "raise", value |-> JNull, status_code |-> 0, detail |-> exc]

\* What the awaited command gives the handler: (stdout, stderr, code) or an
\* HTTPException; killed tells whether proc.kill() was called.
Completed(stdout, stderr, code) ==
    [ok |-> TRUE, stdout |-> stdout, stderr |-> stderr, code |-> code,
     error |-> Return(JNull), killed |-> FALSE]
Aborted(error, killed) ==
    [ok |-> FALSE, stdout |-> <<>>, stderr |-> <<>>, code |-> 0,
     error |-> error, killed |-> killed]

\* run_scoop_command(args, timeout): the outcome of the try block for each way the
\* command ends.
run_scoop_command(fate) ==
    CASE fate.kind = "exit" -> Completed(fate.stdout, fate.stderr, fate.returncode)
      [] fate.kind = "timeout" ->
            Aborted(HTTPException(504, <<"Command", " ", "timed", " ", "out">>), TRUE)
      [] fate.kind = "launch" -> Aborted(HTTPException(500, fate.exc), FALSE)

\* The try block of search_apps and get_available_versions: any exception, the
\* timeout included, becomes a 500 with str(e) (empty for a TimeoutError); the
\* exit code is not read.
create_subprocess_exec(fate) ==
    CASE fate.kind = "exit" -> Completed(fate.stdout, <<>>, 0)
      [] fate.kind = "timeout" -> Aborted(HTTPException(500, <<>>), FALSE)
      [] fate.kind = "launch" -> Aborted(HTTPException(500, fate.exc), FALSE)

\* One command a handler launches: the powershell command line, the timeout in
\* seconds and the code that awaits it.
Command(line, timeout, via) == [line |-> line, timeout |-> timeout, via |-> via]
\* cmd of run_scoop_command: f"scoop {' '.join(args)}"
Scoop(args, timeout) ==
    Command(<<"scoop", " ">> \o Join(SP, args), timeout, "run_scoop_command")
Await(command, fate) ==
    IF command.via = "run_scoop_command" THEN run_scoop_command(fate)
    ELSE create_subprocess_exec(fate)

\* ------------------------------------------------------------ validation
\* Pieces that are neither letters, digits, "_", "-" nor ".".
OtherPieces == {" ", "\n", "\t", "\r", ";", "&", "|", "'", "(", ")", "@", "/", ":", "!", ""}

\* re.match(r'^[...]+$', text): one or more allowed pieces; `$` also matches before
\* a final newline.
Matches(text, allowed(_)) ==
    LET core == IF text # <<>> /\ text[Len(text)] = "\n"
                THEN SubSeq(text, 1, Len(text) - 1) ELSE text
    IN core # <<>> /\ \A i \in 1..Len(core) : allowed(core[i])

APP_NAME_PATTERN(name) == Matches(name, LAMBDA c : c \notin OtherPieces)
VERSION_PATTERN(version) == Matches(version, LAMBDA c : c \notin OtherPieces)
BUCKET_NAME_PATTERN(name) == Matches(name, LAMBDA c : c \notin OtherPieces \cup {"."})
SEARCH_QUERY_PATTERN(q) ==
    Matches(q, LAMBDA c : c \notin OtherPieces \/ c \in {" ", "\n", "\t", "\r"})

Valid(value) == [raised |-> FALSE, exc |-> <<>>, value |-> value]
Invalid(exc) == [raised |-> TRUE, exc |-> exc, value |-> <<>>]
validate_app_name(name) ==
    IF APP_NAME_PATTERN(name) THEN Valid(name)
    ELSE Invalid(<<"Invalid", " ", "app", " ", "name", ":", " ">> \o name)
validate_version(version) ==
    IF VERSION_PATTERN(version) THEN Valid(version)
    ELSE Invalid(<<"Invalid", " ", "version", ":", " ">> \o version)
validate_bucket_name(name) ==
    IF BUCKET_NAME_PATTERN(name) THEN Valid(name)
    ELSE Invalid(<<"Invalid", " ", "bucket", " ", "name", ":", " ">> \o name)

\* ------------------------------------------------------------ route handlers
K(word) == <<word>>

\* f"{name}@{version}"
AtVersion(name, version) == name \o <<"@">> \o version

\* One call of a route handler, after the framework has validated its parameters:
\* the handler and its arguments, with what it reads from the disk (the configured
\* search command, the app's manifest.json).
Call(handler) ==
    [handler |-> handler, name |-> <<>>, apps |-> <<>>, version |-> JNull,
     target_app |-> JNull, url |-> JNull, q |-> <<>>,
     search_command |-> K("scoop"), manifest |-> JNull]

\* What a handler does before it awaits a command: it launches commands, or it
\* ends early with a result.
Launch(commands) == [commands |-> commands, early |-> Return(JNull)]
Early(result) == [commands |-> <<>>, early |-> result]

\* The generic labels of the handlers that check the exit code.
FailureLabel(handler) ==
    CASE handler = "update_apps" -> <<"Update", " ", "failed">>
      [] handler = "uninstall_apps" -> <<"Uninstall", " ", "failed">>
      [] handler = "hold_apps" -> <<"Hold", " ", "failed">>
      [] handler = "unhold_apps" -> <<"Unhold", " ", "failed">>
      [] handler = "hold_app" -> <<"Failed", " ", "to", " ", "hold", " ", "app">>
      [] handler = "unhold_app" -> <<"Failed", " ", "to", " ", "unhold", " ", "app">>
      [] handler = "reset_app" -> <<"Failed", " ", "to", " ", "reset", " ", "app">>
      [] handler = "add_bucket" -> <<"Failed", " ", "to", " ", "add", " ", "bucket">>
      [] handler = "remove_bucket" -> <<"Failed", " ", "to", " ", "remove", " ", "bucket">>
      [] handler = "install_app" -> <<"Failed", " ", "to", " ", "install", " ", "app">>
      [] handler = "get_app_info" -> <<"App", " ", "not", " ", "found">>
      [] OTHER -> <<>>

\* The batch handlers: `if not request.apps: raise HTTPException(400, ...)`, then
\* run_scoop_command([sub] + request.apps, timeout).
Batch(sub, apps, timeout) ==
    IF apps = <<>> THEN Early(HTTPException(400, <<"No", " ", "apps", " ", "specified">>))
    ELSE Launch(<<Scoop(<<K(sub)>> \o apps, timeout)>>)

\* The handlers of one app: validate_app_name(name), then the command.
Named(name, command) ==
    IF validate_app_name(name).raised THEN Early(Raise(validate_app_name(name).exc))
    ELSE Launch(<<command>>)

\* The search command line of search_apps and get_available_versions.
SearchCommand(c, term) ==
    Command((IF c.search_command = K("scoop-search") THEN <<"scoop-search", " ">>
             ELSE <<"scoop", " ", "search", " ">>) \o term, 60, "create_subprocess_exec")

\* The part of each handler up to its await.
Before(c) ==
    CASE c.handler = "get_installed_apps" ->
            Launch(<<Scoop(<<K("list")>>, 120), Scoop(<<K("status")>>, 120)>>)
      [] c.handler = "update_apps" -> Batch("update", c.apps, 600)
      [] c.handler = "uninstall_apps" -> Batch("uninstall", c.apps, 600)
      [] c.handler = "hold_apps" -> Batch("hold", c.apps, 120)
      [] c.handler = "unhold_apps" -> Batch("unhold", c.apps, 120)
      [] c.handler = "hold_app" -> Named(c.name, Scoop(<<K("hold"), c.name>>, 120))
      [] c.handler = "unhold_app" -> Named(c.name, Scoop(<<K("unhold"), c.name>>, 120))
      [] c.handler = "get_available_versions" -> Named(c.name, SearchCommand(c, c.name))
      [] c.handler = "reset_app" ->
            IF validate_app_name(c.name).raised THEN Early(Raise(validate_app_name(c.name).exc))
            ELSE IF Truthy(c.target_app)
            THEN Launch(<<Scoop(<<K("reset"), c.target_app.s>>, 300)>>)
            ELSE IF Truthy(c.version)
            THEN Launch(<<Scoop(<<K("reset"), AtVersion(c.name, c.version.s)>>, 300)>>)
            ELSE Early(HTTPException(400, <<"Either", " ", "version", " ", "or", " ",
                                            "target_app", " ", "is", " ", "required">>))
      [] c.handler = "get_buckets" -> Launch(<<Scoop(<<K("bucket"), K("list")>>, 120)>>)
      [] c.handler = "add_bucket" ->
            Launch(<<Scoop(<<K("bucket"), K("add"), c.name>>
                           \o (IF Truthy(c.url) THEN <<c.url.s>> ELSE <<>>), 300)>>)
      [] c.handler = "remove_bucket" ->
            IF validate_bucket_name(c.name).raised
            THEN Early(Raise(validate_bucket_name(c.name).exc))
            ELSE Launch(<<Scoop(<<K("bucket"), K("rm"), c.name>>, 120)>>)
      [] c.handler = "search_apps" ->
            IF c.q = <<>> \/ ~SEARCH_QUERY_PATTERN(c.q)
            THEN Early(HTTPException(400, <<"Invalid", " ", "search", " ", "query">>))
            ELSE Launch(<<SearchCommand(c, c.q)>>)
      [] c.handler = "install_app" ->
            Named(c.name, Scoop(<<K("install"),
                                  IF Truthy(c.version) THEN AtVersion(c.name, c.version.s)
                                  ELSE c.name>>, 300))
      [] c.handler = "get_app_info" ->
            IF validate_app_name(c.name).raised THEN Early(Raise(validate_app_name(c.name).exc))
            ELSE IF Truthy(c.manifest) THEN Early(Return(c.manifest))
            ELSE Launch(<<Scoop(<<K("cat"), c.name>>, 120)>>)

RECURSIVE LeadingNonSpace(_)
\* Number of pieces of the leading run of non-whitespace.
LeadingNonSpace(txt) ==
    IF txt = <<>> \/ IsSpace(Head(txt)) THEN 0 ELSE 1 + LeadingNonSpace(Tail(txt))
RECURSIVE LeadingSpace(_)
LeadingSpace(txt) ==
    IF txt = <<>> \/ ~IsSpace(Head(txt)) THEN 0 ELSE 1 + LeadingSpace(Tail(txt))
RECURSIVE Before1(_, _)
\* The pieces of txt before the first occurrence of piece c (all of txt without one).
Before1(txt, c) ==
    IF txt = <<>> \/ Head(txt) = c THEN <<>> ELSE <<Head(txt)>> \o Before1(Tail(txt), c)

\* re.match(r'^(\S+)\s+\(([^)]+)\)', line): the groups, when the line matches.
GroupedMatch(line) ==
    LET n == LeadingNonSpace(line)
        w == LeadingSpace(SubSeq(line, n + 1, Len(line)))
        rest == SubSeq(line, n + w + 2, Len(line))
        version == Before1(rest, ")")
    IN IF n >= 1 /\ w >= 1 /\ n + w + 1 <= Len(line) /\ line[n + w + 1] = "("
          /\ version # <<>> /\ Len(version) < Len(rest)
       THEN [matched |-> TRUE, name |-> SubSeq(line, 1, n), version |-> version]
       ELSE [matched |-> FALSE, name |-> <<>>, version |-> <<>>]

\* The test of get_available_versions on a found app: the app itself or "<name>-...".
SameApp(app_name, name) ==
    LET a == Lower(app_name)
        n == Lower(name)
    IN a = n \/ (Len(a) > Len(n) /\ SubSeq(a, 1, Len(n) + 1) = n \o <<"-">>)

RECURSIVE parse_grouped(_, _, _, _)
\* The scoop-search branch of search_apps and get_available_versions: a line
\* "'<bucket>' bucket:" sets the bucket of the "name (version)" lines after it.
\* keep(app_name) is the filter of the caller.
parse_grouped(lines, current_bucket, filter, name) ==
    IF lines = <<>> THEN <<>>
    ELSE LET line == StripWs(Head(lines))
             m == GroupedMatch(line)
         IN IF line = <<>> THEN parse_grouped(Tail(lines), current_bucket, filter, name)
            ELSE IF StartsWith(line, "'") /\ In("bucket", Lower(line))
            THEN parse_grouped(Tail(lines), SplitOn(line, "'", <<>>)[2], filter, name)
            ELSE IF StartsWith(line, "Results")
            THEN parse_grouped(Tail(lines), current_bucket, filter, name)
            ELSE IF m.matched /\ (~filter \/ SameApp(m.name, name))
            THEN <<[name |-> m.name, version |-> m.version, bucket |-> current_bucket]>>
                 \o parse_grouped(Tail(lines), current_bucket, filter, name)
            ELSE parse_grouped(Tail(lines), current_bucket, filter, name)

RECURSIVE parse_tabular(_, _, _)
\* The `scoop search` branch: rows "name version source".  search_apps skips a line
\* that starts with "Results", get_available_versions one that contains it.
parse_tabular(lines, filter, name) ==
    IF lines = <<>> THEN <<>>
    ELSE LET line == StripWs(Head(lines))
             parts == Split(line)
             rest == parse_tabular(Tail(lines), filter, name)
         IN IF line = <<>> \/ (IF filter THEN In("Results", line)
                                         ELSE StartsWith(line, "Results"))
               \/ StartsWith(line, "-") \/ StartsWith(line, "Name")
            THEN rest
            ELSE IF Len(parts) >= 3 /\ (~filter \/ SameApp(parts[1], name))
            THEN <<[name |-> parts[1], version |-> parts[2], bucket |-> parts[3]]>> \o rest
            ELSE rest

\* The pieces made of decimal digits (a run of digits is one piece), and the pieces
\* str.isdigit() accepts: those, and a digit that is no decimal digit, such as the
\* character SUPERSCRIPT TWO (U+00B2), written "superscript-two" here.
DecimalPieces == {"0", "7", "007", "1407"}
DigitPieces == DecimalPieces \cup {"superscript-two"}
isdigit(text) == Len(text) = 1 /\ text[1] \in DigitPieces
\* int(text): the number of a text of decimal digits, a ValueError for any other text.
int(text) ==
    IF Len(text) = 1 /\ text[1] \in DecimalPieces
    THEN Returned(IF text = <<"007">> THEN "7" ELSE text[1])
    ELSE Threw(<<"ValueError">>)

RECURSIVE parse_buckets(_)
\* The loop of get_buckets over the lines of `scoop bucket list`.
parse_buckets(lines) ==
    IF lines = <<>> THEN Returned(<<>>)
    ELSE LET line == StripWs(Head(lines))
             parts == Split(line)
             counted == Len(parts) >= 5 /\ isdigit(parts[5])
             rest == parse_buckets(Tail(lines))
         IN IF line = <<>> \/ StartsWith(line, "Name") \/ StartsWith(line, "-") THEN rest
            ELSE IF Len(parts) >= 2
            THEN IF counted /\ int(parts[5]).raised THEN Threw(int(parts[5]).exc)
                 ELSE IF rest.raised THEN rest
                 ELSE Returned(
                   <<Dict(<< <<K("name"), JStr(parts[1])>>, <<K("source"), JStr(parts[2])>>,
                     <<K("updated"), IF Len(parts) >= 4
                                     THEN JStr(parts[3] \o SP \o parts[4]) ELSE JNull>>,
                     <<K("manifests"), IF counted THEN JNum(int(parts[5]).val)
                                       ELSE JNull>> >>)>> \o rest.val)
            ELSE rest

\* AppInfo(...) of get_installed_apps for one parsed app.
AppInfo(app, updates) ==
    Dict(<< <<K("name"), JStr(app.name)>>, <<K("version"), JStr(app.version)>>,
            <<K("bucket"), JStr(app.bucket)>>, <<K("updated"), app.updated>>,
            <<K("held"), JBool(app.held)>>,
            <<K("has_update"), JBool(app.name \in DOMAIN updates)>>,
            <<K("latest_version"), IF app.name \in DOMAIN updates
                                   THEN JStr(updates[app.name]) ELSE JNull>> >>)

\* VersionInfo(...) / SearchResult(...): description is absent from the search output.
FoundJson(found, with_description) ==
    JList([i \in 1..Len(found) |->
        Dict(<< <<K("name"), JStr(found[i].name)>>, <<K("version"), JStr(found[i].version)>>,
                <<K("bucket"), JStr(found[i].bucket)>> >>
             \o (IF with_description THEN << <<K("description"), JNull>> >> ELSE <<>>))])

\* {"success": True, "message": stdout}
Success(stdout) == Dict(<< <<K("success"), JBool(TRUE)>>, <<K("message"), JStr(stdout)>> >>)

\* `if code != 0: raise HTTPException(400, stderr or "<label>")`, then the success dict.
Checked(handler, r) ==
    IF r.code # 0
    THEN HTTPException(400, IF r.stderr # <<>> THEN r.stderr ELSE FailureLabel(handler))
    ELSE Return(Success(r.stdout))

RECURSIVE Tokenize(_)
\* The JSON tokens of a text: json.loads(stdout) reads a str.  A '"' piece opens a
\* string literal that runs to the next '"' piece; whitespace separates tokens.
Tokenize(text) ==
    IF text = <<>> THEN <<>>
    ELSE LET c == Head(text) IN
      IF IsSpace(c) THEN Tokenize(Tail(text))
      ELSE IF c = "\""
      THEN LET inner == Before1(Tail(text), "\"")
           IN IF Len(inner) < Len(text) - 1
              THEN <<S(inner)>> \o Tokenize(SubSeq(text, Len(inner) + 3, Len(text)))
              ELSE <<X(c)>>
      ELSE IF c \in {"{", "}", "[", "]", ":", ","} THEN <<P(c)>> \o Tokenize(Tail(text))
      ELSE IF c \in {"null", "true", "false"} THEN <<L(c)>> \o Tokenize(Tail(text))
      ELSE IF c \in DecimalPieces \ {"007"} THEN <<N(c)>> \o Tokenize(Tail(text))
      ELSE <<X(c)>> \o Tokenize(Tail(text))

\* The part of each handler after its commands have completed; rs are the
\* (stdout, stderr, code) triples in the order of the commands.
After(c, rs) ==
    CASE c.handler = "get_installed_apps" ->
            LET apps == parse_list_output(rs[1].stdout)
                updates == parse_status_output(rs[2].stdout)
            IN Return(JList([i \in 1..Len(apps) |-> AppInfo(apps[i], updates)]))
      [] c.handler = "get_available_versions" ->
            Return(FoundJson(IF c.search_command = K("scoop-search")
                             THEN parse_grouped(Lines(rs[1].stdout), K("unknown"), TRUE, c.name)
                             ELSE parse_tabular(Lines(rs[1].stdout), TRUE, c.name), FALSE))
      [] c.handler = "search_apps" ->
            Return(FoundJson(IF c.search_command = K("scoop-search")
                             THEN parse_grouped(Lines(rs[1].stdout), K("unknown"), FALSE, <<>>)
                             ELSE parse_tabular(Lines(rs[1].stdout), FALSE, <<>>), TRUE))
      [] c.handler = "get_buckets" ->
            LET buckets == parse_buckets(Lines(rs[1].stdout))
            IN IF buckets.raised THEN Raise(buckets.exc) ELSE Return(JList(buckets.val))
      [] c.handler = "get_app_info" ->
            IF rs[1].code # 0 THEN Checked(c.handler, rs[1])
            ELSE LET j == json_loads(Tokenize(rs[1].stdout))
                 IN IF j.raised THEN Return(Dict(<< <<K("raw"), JStr(rs[1].stdout)>> >>))
                    ELSE Return(j.val)
      [] OTHER -> Checked(c.handler, rs[1])

\* The exception a handler's await raises when commands failed: asyncio.gather
\* raises the first one raised, and a launch failure comes before any timeout.
FirstError(awaited, fates) ==
    LET failed == {i \in 1..Len(awaited) : ~awaited[i].ok}
        launch == {i \in failed : fates[i].kind = "launch"}
        pick(from) == CHOOSE i \in from : \A j \in from : i <= j
    IN awaited[IF launch # {} THEN pick(launch) ELSE pick(failed)].error

\* A whole handler call, given how each of its commands ends.
Handle(c, fates) ==
    LET b == Before(c)
        awaited == [i \in 1..Len(b.commands) |-> Await(b.commands[i], fates[i])]
    IN IF b.commands = <<>> THEN b.early
       ELSE IF \E i \in 1..Len(awaited) : ~awaited[i].ok THEN FirstError(awaited, fates)
       ELSE After(c, awaited)

\* No handler call in progress.
IdleCmd == [pc |-> "idle", call |-> Call(""), procs |-> <<>>, order |-> <<>>,
            result |-> Return(JNull)]

\* ------------------------------------------------------------ the middleware
Reqs == 1..MaxReqs

BodyMethods == {"POST", "PUT", "PATCH", "DELETE"}

\* Request bodies as the client sends them.
BodyAppsGit == <<P("{"), S(<<"apps">>), P(":"), P("["), S(<<"git">>), P("]"), P("}")>>
BodyEmptyObject == <<P("{"), P("}")>>
BodyNotJson == <<X("apps=git")>>
BodySettings == <<P("{"), S(<<"search_command">>), P(":"), S(<<"scoop-search">>), P("}")>>
BodyJsonList == <<P("["), N("1"), P("]")>>

NoQuery == <<>>
Request(method, path, query, sent) ==
    [method |-> method, path |-> path, query |-> query, sent |-> sent]

\* The requests a client sends.
Requests ==
    { Request("GET", <<"api", "apps">>, NoQuery, <<>>),
      Request("POST", <<"api", "apps", "update">>, NoQuery, BodyAppsGit),
      Request("POST", <<"api", "apps", "update">>, NoQuery, BodyEmptyObject),
      Request("POST", <<"api", "apps", "update">>, NoQuery, BodyNotJson),
      Request("POST", <<"api", "apps", "update">>, NoQuery, BodyJsonList),
      Request("DELETE", <<"api", "buckets", "extras">>, NoQuery, <<>>),
      Request("DELETE", <<"api", "buckets", "my.bucket">>, NoQuery, <<>>),
      Request("GET", <<"api", "logs">>, NoQuery, <<>>),
      Request("DELETE", <<"api", "logs">>, NoQuery, <<>>),
      Request("POST", <<"api", "apps", "git", "reset">>, NoQuery, BodyEmptyObject),
      Request("POST", <<"api", "settings">>, NoQuery, BodySettings),
      Request("PUT", <<"api", "apps", "git">>, NoQuery, BodyNotJson) }

Header(name, value) == <<name, value>>
JsonHeaders(body) == << Header("content-length", ToString(Len(body))),
                        Header("content-type", "application/json") >>

Response(status, headers, chunks) ==
    [kind |-> "response", status |-> status, headers |-> headers, chunks |-> chunks,
     exc |-> <<>>]
Failure(exc) ==
    [kind |-> "raise", status |-> 0, headers |-> <<>>, chunks |-> <<>>, exc |-> exc]
Pending ==
    [kind |-> "pending", status |-> 0, headers |-> <<>>, chunks |-> <<>>, exc |-> <<>>]

\* The framework's rendering of what a handler returned or raised: a JSONResponse of
\* the value, {"detail": ...} with the status of an HTTPException, or the exception
\* itself when it is no HTTPException.
Rendered(result) ==
    LET body == IF result.kind = "return" THEN DumpValue(result.value)
                ELSE DumpValue(Dict(<< <<K("detail"), JStr(result.detail)>> >>))
    IN IF result.kind = "raise" THEN Failure(result.detail)
       ELSE Response(result.status_code, JsonHeaders(body), <<body>>)

\* The framework's answer to a request whose body or parameters do not validate:
\* 422 with a list of errors as the detail.
Unprocessable ==
    LET body == DumpValue(Dict(<< <<K("detail"),
                    JList(<<Dict(<< <<K("msg"), JStr(<<"Field", " ", "required">>)>> >>)>>)>> >>))
    IN Response(422, JsonHeaders(body), <<body>>)

\* The framework's answer when no route matches the path and the method.
NoRoute ==
    { Rendered(HTTPException(404, <<"Not", " ", "Found">>)),
      Rendered(HTTPException(405, <<"Method", " ", "Not", " ", "Allowed">>)) }

\* get_logs(limit = 100): read_logs through the route, as list[OperationLog].
get_logs(db) ==
    LET rows == read_logs(db, 100)
    IN Rendered(Return(JList([i \in 1..Len(rows) |->
           Dict(<< <<K("time"), JStr(<<ToString(rows[i].time)>>)>>,
                   <<K("operation"), JStr(rows[i].operation)>>,
                   <<K("command"), JStr(rows[i].command)>>,
                   <<K("success"), JBool(rows[i].success)>>,
                   <<K("message"), JStr(rows[i].message)>> >>)])))

\* delete_logs(): clear_logs through the route, then {"success": True}.
delete_logs == Rendered(Return(Dict(<< <<K("success"), JBool(TRUE)>> >>)))

\* What the client observes of a response: status, headers, body bytes.
Observed(status, headers, body) ==
    [kind |-> "response", status |-> status, headers |-> headers, body |-> body,
     exc |-> <<>>]
ObservedFailure(exc) ==
    [kind |-> "raise", status |-> 0, headers |-> <<>>, body |-> <<>>, exc |-> exc]
NothingYet ==
    [kind |-> "pending", status |-> 0, headers |-> <<>>, body |-> <<>>, exc |-> <<>>]

\* A response sent as the handler made it.
Untouched(o) ==
    IF o.kind = "response" THEN Observed(o.status, o.headers, Concat(o.chunks))
    ELSE ObservedFailure(o.exc)

HasHeader(headers, name) == \E i \in 1..Len(headers) : headers[i][1] = name

RECURSIVE DictItems(_, _)
\* dict(response.headers).items(): one item per name, the first value of each.
DictItems(headers, seen) ==
    IF headers = <<>> THEN <<>>
    ELSE IF Head(headers)[1] \in seen THEN DictItems(Tail(headers), seen)
    ELSE <<Head(headers)>> \o DictItems(Tail(headers), seen \cup {Head(headers)[1]})

\* Response(content=..., status_code=..., headers=dict(...), media_type=None): the
\* given headers, and a content-length when they have none.
NewResponse(content, status_code, headers) ==
    LET given == DictItems(headers, {})
        extra == IF ~HasHeader(given, "content-length")
                    /\ ~(status_code < 200 \/ status_code \in {204, 304})
                 THEN <<Header("content-length", ToString(Len(content)))>> ELSE <<>>
    IN Observed(status_code, given \o extra, content)

\* The classified requests of the concurrent specification.
ConcRequests ==
    { Request("POST", <<"api", "apps", "update">>, NoQuery, BodyAppsGit),
      Request("DELETE", <<"api", "buckets", "extras">>, NoQuery, <<>>),
      Request("DELETE", <<"api", "buckets", "my.bucket">>, NoQuery, <<>>) }

\* The body of a request from the value the client serialises.
BodyOf(fields) == DumpValue(Dict(fields))

\* Requests to the routes that run one command for one app: reset with every
\* combination of version and target_app, install with and without a version, the
\* version query, the search, hold and info.
RouteRequests ==
    LET version == <<K("version"), JStr(K("2.44.0"))>>
        target_app == <<K("target_app"), JStr(K("git-lfs"))>>
        reset == <<"api", "apps", "git", "reset">>
        install == <<"api", "apps", "install">>
        name == [p \in {"name"} |-> K("git")]
    IN { Request("POST", reset, NoQuery, BodyEmptyObject),
         Request("POST", reset, NoQuery, BodyOf(<< <<K("version"), JStr(<<>>)>> >>)),
         Request("POST", reset, NoQuery, BodyOf(<<version>>)),
         Request("POST", reset, NoQuery, BodyOf(<<target_app>>)),
         Request("POST", reset, NoQuery, BodyOf(<<version, target_app>>)),
         Request("POST", install, name, BodyEmptyObject),
         Request("POST", install, name, BodyOf(<<version>>)),
         Request("GET", <<"api", "apps", "git", "versions">>, NoQuery, <<>>),
         Request("GET", <<"api", "search">>, [p \in {"q"} |-> K("git")], <<>>),
         Request("POST", <<"api", "apps", "git", "hold">>, NoQuery, <<>>),
         Request("GET", <<"api", "apps", "git", "info">>, NoQuery, <<>>) }

\* The requests clients send, by kind of traffic.
RequestsSent(kind) == IF kind = "all" THEN Requests
                      ELSE IF kind = "classified" THEN ConcRequests
                      ELSE IF kind = "routes" THEN RouteRequests ELSE {}

\* What the handler got when it read the body: nothing is read before the handler
\* runs, nor by a route without a request model.
NotRead == [done |-> FALSE, got |-> FALSE, bytes |-> <<>>]
Read(bytes) == [done |-> TRUE, got |-> TRUE, bytes |-> bytes]
Lost == [done |-> TRUE, got |-> FALSE, bytes |-> <<>>]

IdleReq ==
    [pc |-> "idle", method |-> "", path |-> <<>>, query_params |-> NoQuery, sent |-> <<>>,
     body |-> EmptyMap, replaced |-> FALSE, info |-> NoOperation,
     read |-> NotRead, ran |-> <<>>, handler |-> Pending,
     success |-> FALSE, stream |-> <<>>, response_body |-> <<>>,
     client |-> NothingYet, rowids |-> {}]

\* The body the handler reads from the request log_requests passes to call_next.
\* The replacement request replays body_bytes.  A request that was not replaced is
\* the original one: untouched for a method without a body; with its stream already
\* consumed by request.body() when json.loads failed, and then the framework either
\* replays its cached body or has nothing left to give.
HandlerReads(q) ==
    IF q.replaced \/ q.method \notin BodyMethods
    THEN {Read(q.sent)}
    ELSE {Read(q.sent), Lost}

\* log_requests, lines 307-314: the request arrives and its body is read.
Receive(r) ==
    /\ r \in traffic.tasks
    /\ req[r].pc \in {"idle", "done"}
    /\ \A p \in Reqs : p < r => req[p].pc # "idle"
    /\ served < traffic.budget
    /\ served' = served + 1
    /\ \E q \in RequestsSent(traffic.kind) :
         req' = [req EXCEPT ![r] = [IdleReq EXCEPT !.pc = "received",
                    !.method = q.method, !.path = q.path,
                    !.query_params = q.query, !.sent = q.sent]]
    /\ UNCHANGED <<logs, sqlite_sequence, clock, hist, lastRead, lastOp, cmd, traffic, fn>>

\* log_requests, lines 311-322: body = json.loads(body_bytes) and the request
\* replaced by one that replays body_bytes; any exception skips the rest of the block.
Buffered(q) ==
    IF q.method \notin BodyMethods THEN [body |-> EmptyMap, replaced |-> FALSE]
    ELSE IF q.sent = <<>> THEN [body |-> EmptyMap, replaced |-> TRUE]
    ELSE LET j == json_loads(q.sent)
         IN IF j.raised THEN [body |-> EmptyMap, replaced |-> FALSE]
            ELSE [body |-> j.val, replaced |-> TRUE]

\* log_requests, lines 311-328: buffer the body and classify the request.
Classify(r) ==
    /\ req[r].pc = "received"
    /\ LET q == req[r]
           b == Buffered(q)
           info == get_operation_info(q.method, q.path, q.query_params, b.body)
       IN req' = [req EXCEPT ![r] =
                   [q EXCEPT !.body = b.body, !.replaced = b.replaced, !.info = info,
                             !.pc = IF info.kind = "raise" THEN "done" ELSE "delegated",
                             !.client = IF info.kind = "raise"
                                        THEN ObservedFailure(info.exc) ELSE NothingYet]]
    /\ UNCHANGED <<logs, sqlite_sequence, clock, hist, lastRead, lastOp, served, cmd, traffic, fn>>

\* The except block with the exception swallowed: a 500 response instead of the raise.
ExceptBlockSwallow(db, now, info, exc) ==
    [db |-> append_log(db, now, info.operation, info.cmd, FALSE, JStr(exc)).db,
     client |-> Observed(500, <<>>, <<>>)]

\* The except block of log_requests: append_log(operation, cmd, False, str(e)); raise
ExceptBlock(db, now, info, exc) ==
    [db |-> append_log(db, now, info.operation, info.cmd, FALSE, JStr(exc)).db,
     client |-> ObservedFailure(exc)]

\* log_requests, lines 325-326 with the entry written before the test of info.
PassThroughLogged(db, now, info, o) ==
    [db |-> append_log(db, now, info.operation, info.cmd, o.kind = "response", JStr(<<>>)).db,
     client |-> Untouched(o)]

\* log_requests, lines 325-326: `if info is None: return await call_next(request)`.
PassThrough(db, now, info, o) == [db |-> db, client |-> Untouched(o)]

\* Console output of the listing commands.
ListOutput ==
    <<"Installed", " ", "apps", ":", "\n", "\n", "Name", " ", "Version", "\n", "-", "-", "\n",
      "git", " ", "2.44.0", " ", "main", " ", "2024-01-01", " ", "10:00:00", " ", "Held",
      "\n", "7zip", " ", "23.01", "\n">>
StatusOutput ==
    <<"WARN", " ", "Scoop", " ", "out", " ", "of", " ", "date", "\n",
      "Name", " ", "Installed", " ", "Latest", "\n", "-", "-", "\n",
      "7zip", " ", "23.01", " ", "24.00", "\n">>
TabularOutput ==
    <<"Results", " ", "from", " ", "local", " ", "buckets", "\n", "\n",
      "Name", " ", "Version", " ", "Source", "\n", "-", "-", "\n",
      "git", " ", "2.44.0", " ", "main", "\n",
      "Git", "-", "lfs", " ", "3.5.1", " ", "extras", "\n",
      "gitui", " ", "0.26", " ", "main", "\n">>
GroupedOutput ==
    <<"'", "main", "'", " ", "bucket", ":", "\n",
      " ", " ", "git", " ", "(", "2.44.0", ")", "\n",
      " ", " ", "gitui", " ", "(", "0.26", ")", " ", "-", "-", ">", " ", "tui", "\n",
      "broken", "(", "1", ")", "\n">>
BucketOutput ==
    <<"Name", " ", "Source", "\n", "-", "-", "\n",
      "main", " ", "https://", "github.com/ScoopInstaller/Main", " ",
      "2024-01-01", " ", "10:00:00", " ", "1407", "\n",
      "local", " ", "C:\\buckets\\local", "\n">>
CatOutput == <<"{", "\"", "version", "\"", ":", " ", "\"", "2.44.0", "\"", "}", "\n">>

\* The text a command prints when all goes well.
GoodOutput(command) ==
    LET line == command.line
        sub == IF Len(line) >= 3 THEN line[3] ELSE ""
    IN CASE line[1] = "scoop-search" -> GroupedOutput
         [] sub = "list" -> ListOutput
         [] sub = "status" -> StatusOutput
         [] sub = "search" -> TabularOutput
         [] sub = "bucket" /\ Len(line) >= 5 /\ line[5] = "list" -> BucketOutput
         [] sub = "cat" -> CatOutput
         [] OTHER -> <<"Done", ".", "\n">>

ErrorText == <<"ERROR", " ", "Access", " ", "denied", "\n">>

\* The ways a launched command can end: success, failure with and without text on
\* standard error, a run longer than the timeout.
FatesOf(command) ==
    { Exited(GoodOutput(command), <<>>, 0),
      Exited(<<>>, ErrorText, 1),
      Exited(<<>>, <<>>, 1),
      StillRunning }

RECURSIVE FateLists(_)
\* Every way the commands of a handler can end, one fate per command.
FateLists(commands) ==
    IF commands = <<>> THEN {<<>>}
    ELSE {<<f>> \o rest : f \in FatesOf(Head(commands)) \cup {LaunchFailed(<<"[WinError 2]">>)},
                          rest \in FateLists(Tail(commands))}

\* Every result a handler call can have.
Results(c) == {Handle(c, fates) : fates \in FateLists(Before(c).commands)}

\* A path parameter as text: the segment cut into its pieces.
PathParam(segment) ==
    CASE segment = "my.bucket" -> <<"my", ".", "bucket">>
      [] segment = "git;calc" -> <<"git", ";", "calc">>
      [] OTHER -> <<segment>>

\* The request models: the body the handler reads, validated into the model's
\* fields, or not valid.
NotValid == [valid |-> FALSE, fields |-> <<>>]
Model(fields) == [valid |-> TRUE, fields |-> fields]
IsOptionalStr(v) == v.t \in {"null", "str"}

\* class UpdateRequest: apps: list[str], each item through validate_app_name.
UpdateRequest(bytes) ==
    LET j == json_loads(bytes)
        apps == IF ~j.raised /\ j.val.t = "map" /\ K("apps") \in DOMAIN j.val.m
                THEN j.val.m[K("apps")] ELSE JNull
    IN IF apps.t = "list"
          /\ \A i \in 1..Len(apps.items) :
                apps.items[i].t = "str" /\ ~validate_app_name(apps.items[i].s).raised
       THEN Model([apps |-> [i \in 1..Len(apps.items) |-> apps.items[i].s]])
       ELSE NotValid

\* class ResetRequest: version and target_app, optional, validated when truthy.
ResetRequest(bytes) ==
    LET j == json_loads(bytes)
        body == IF j.raised THEN JNull ELSE j.val
        version == IF body.t = "map" THEN Get(body, K("version"), JNull) ELSE JNull
        target_app == IF body.t = "map" THEN Get(body, K("target_app"), JNull) ELSE JNull
    IN IF body.t = "map" /\ IsOptionalStr(version) /\ IsOptionalStr(target_app)
          /\ (Truthy(version) => ~validate_version(version.s).raised)
          /\ (Truthy(target_app) => ~validate_app_name(target_app.s).raised)
       THEN Model([version |-> version, target_app |-> target_app])
       ELSE NotValid

\* class SettingsRequest: search_command: str, turbo_mode: bool = False.
SettingsRequest(bytes) ==
    LET j == json_loads(bytes)
        body == IF j.raised THEN JNull ELSE j.val
    IN IF body.t = "map" /\ K("search_command") \in DOMAIN body.m
          /\ body.m[K("search_command")].t = "str"
          /\ Get(body, K("turbo_mode"), JBool(FALSE)).t = "bool"
       THEN Model([search_command |-> body.m[K("search_command")].s,
                   turbo_mode |-> Get(body, K("turbo_mode"), JBool(FALSE)).b])
       ELSE NotValid

\* class AddBucketRequest: name through validate_bucket_name, url optional and
\* matching URL_PATTERN (a scheme piece, then pieces without whitespace).
URL_PATTERN(url) ==
    Len(url) >= 2 /\ url[1] \in {"http://", "https://"}
    /\ \A i \in 2..Len(url) : ~IsSpace(url[i])
AddBucketRequest(bytes) ==
    LET j == json_loads(bytes)
        body == IF j.raised THEN JNull ELSE j.val
        name == IF body.t = "map" THEN Get(body, K("name"), JNull) ELSE JNull
        url == IF body.t = "map" THEN Get(body, K("url"), JNull) ELSE JNull
    IN IF name.t = "str" /\ ~validate_bucket_name(name.s).raised /\ IsOptionalStr(url)
          /\ (Truthy(url) => URL_PATTERN(url.s))
       THEN Model([name |-> name.s, url |-> url])
       ELSE NotValid

\* A route with a request model: the handler's results when the body validates.  A
\* body that cannot be read ends the request with the client's disconnect.
WithBody(rd, model, call(_)) ==
    IF ~rd.got THEN {Failure(<<"ClientDisconnect">>)}
    ELSE IF ~model.valid THEN {Unprocessable}
    ELSE {Rendered(result) : result \in Results(call(model.fields))}

\* The routes whose handler has a request model, and so reads the body.
ReadsBody(q) ==
    \/ q.method = "POST" /\ q.path \in { <<"api", "apps", "update">>,
             <<"api", "apps", "uninstall">>, <<"api", "apps", "hold">>,
             <<"api", "apps", "install">>, <<"api", "buckets">>, <<"api", "settings">> }
    \/ q.method = "DELETE" /\ q.path = <<"api", "apps", "hold">>
    \/ q.method = "POST" /\ Len(q.path) = 4 /\ StartsWith2(q.path, "api", "apps")
          /\ q.path[4] = "reset"

\* What is recorded as read by the handler of request q.
AsRead(q, rd) == IF ReadsBody(q) THEN rd ELSE NotRead

\* The routes, in the order of their registration: the responses the application
\* behind call_next can give to a request, rd being what reading the body yields.
Route(db, q, rd) ==
    LET is(method, path) == q.method = method /\ q.path = path
        app(method, last) == q.method = method /\ Len(q.path) = 4
                             /\ StartsWith2(q.path, "api", "apps") /\ q.path[4] = last
        name == IF Len(q.path) >= 3 THEN PathParam(q.path[3]) ELSE <<>>
        of(call) == {Rendered(result) : result \in Results(call)}
    IN CASE is("GET", <<"api", "apps">>) -> of(Call("get_installed_apps"))
         [] is("POST", <<"api", "apps", "update">>) ->
               WithBody(rd, UpdateRequest(rd.bytes),
                        LAMBDA f : [Call("update_apps") EXCEPT !.apps = f.apps])
         [] is("POST", <<"api", "apps", "uninstall">>) ->
               WithBody(rd, UpdateRequest(rd.bytes),
                        LAMBDA f : [Call("uninstall_apps") EXCEPT !.apps = f.apps])
         [] is("POST", <<"api", "apps", "hold">>) ->
               WithBody(rd, UpdateRequest(rd.bytes),
                        LAMBDA f : [Call("hold_apps") EXCEPT !.apps = f.apps])
         [] is("DELETE", <<"api", "apps", "hold">>) ->
               WithBody(rd, UpdateRequest(rd.bytes),
                        LAMBDA f : [Call("unhold_apps") EXCEPT !.apps = f.apps])
         [] app("POST", "hold") -> of([Call("hold_app") EXCEPT !.name = name])
         [] app("DELETE", "hold") -> of([Call("unhold_app") EXCEPT !.name = name])
         [] app("GET", "versions") -> of([Call("get_available_versions") EXCEPT !.name = name])
         [] app("POST", "reset") ->
               WithBody(rd, ResetRequest(rd.bytes),
                        LAMBDA f : [Call("reset_app") EXCEPT !.name = name,
                                        !.version = f.version, !.target_app = f.target_app])
         [] is("GET", <<"api", "buckets">>) -> of(Call("get_buckets"))
         [] q.method = "DELETE" /\ Len(q.path) = 3 /\ StartsWith2(q.path, "api", "buckets") ->
               of([Call("remove_bucket") EXCEPT !.name = name])
         [] is("POST", <<"api", "settings">>) ->
               IF ~rd.got THEN {Failure(<<"ClientDisconnect">>)}
               ELSE IF ~SettingsRequest(rd.bytes).valid THEN {Unprocessable}
               ELSE {Rendered(Return(Dict(<< <<K("success"), JBool(TRUE)>> >>)))}
         [] is("GET", <<"api", "settings">>) ->
               {Rendered(Return(Dict(<< <<K("search_command"), JStr(K("scoop"))>> >>)))}
         [] is("POST", <<"api", "buckets">>) ->
               WithBody(rd, AddBucketRequest(rd.bytes),
                        LAMBDA f : [Call("add_bucket") EXCEPT !.name = f.name, !.url = f.url])
         [] is("GET", <<"api", "search">>) ->
               IF "q" \in DOMAIN q.query_params
               THEN of([Call("search_apps") EXCEPT !.q = q.query_params["q"]])
               ELSE {Unprocessable}
         [] is("POST", <<"api", "apps", "install">>) ->
               IF "name" \in DOMAIN q.query_params
               THEN WithBody(rd, ResetRequest(rd.bytes),
                             LAMBDA f : [Call("install_app") EXCEPT
                                             !.name = q.query_params["name"],
                                             !.version = f.version])
               ELSE {Unprocessable}
         [] is("GET", <<"api", "logs">>) -> {get_logs(db)}
         [] is("DELETE", <<"api", "logs">>) -> {delete_logs}
         [] app("GET", "info") -> of([Call("get_app_info") EXCEPT !.name = name])
         [] OTHER -> NoRoute

\* The handler call of a route, if any, given the request models made of the body:
\* <<call>>, or <<>> when the route runs no command, or when the body cannot be read
\* or does not validate.
Endpoint(q, got, update, reset, bucket) ==
    LET is(method, path) == q.method = method /\ q.path = path
        app(method, last) == q.method = method /\ Len(q.path) = 4
                             /\ StartsWith2(q.path, "api", "apps") /\ q.path[4] = last
        name == IF Len(q.path) >= 3 THEN PathParam(q.path[3]) ELSE <<>>
        batch(handler) == IF got /\ update.valid
                          THEN <<[Call(handler) EXCEPT !.apps = update.fields.apps]>>
                          ELSE <<>>
    IN CASE is("GET", <<"api", "apps">>) -> <<Call("get_installed_apps")>>
         [] is("POST", <<"api", "apps", "update">>) -> batch("update_apps")
         [] is("POST", <<"api", "apps", "uninstall">>) -> batch("uninstall_apps")
         [] is("POST", <<"api", "apps", "hold">>) -> batch("hold_apps")
         [] is("DELETE", <<"api", "apps", "hold">>) -> batch("unhold_apps")
         [] app("POST", "hold") -> <<[Call("hold_app") EXCEPT !.name = name]>>
         [] app("DELETE", "hold") -> <<[Call("unhold_app") EXCEPT !.name = name]>>
         [] app("GET", "versions") -> <<[Call("get_available_versions") EXCEPT !.name = name]>>
         [] app("POST", "reset") ->
               IF got /\ reset.valid
               THEN <<[Call("reset_app") EXCEPT !.name = name,
                          !.version = reset.fields.version,
                          !.target_app = reset.fields.target_app]>>
               ELSE <<>>
         [] is("GET", <<"api", "buckets">>) -> <<Call("get_buckets")>>
         [] q.method = "DELETE" /\ Len(q.path) = 3 /\ StartsWith2(q.path, "api", "buckets") ->
               <<[Call("remove_bucket") EXCEPT !.name = name]>>
         [] is("POST", <<"api", "buckets">>) ->
               IF got /\ bucket.valid
               THEN <<[Call("add_bucket") EXCEPT !.name = bucket.fields.name,
                          !.url = bucket.fields.url]>>
               ELSE <<>>
         [] is("GET", <<"api", "search">>) /\ "q" \in DOMAIN q.query_params ->
               <<[Call("search_apps") EXCEPT !.q = q.query_params["q"]]>>
         [] is("POST", <<"api", "apps", "install">>) /\ "name" \in DOMAIN q.query_params ->
               IF got /\ reset.valid
               THEN <<[Call("install_app") EXCEPT !.name = q.query_params["name"],
                          !.version = reset.fields.version]>>
               ELSE <<>>
         [] app("GET", "info") -> <<[Call("get_app_info") EXCEPT !.name = name]>>
         [] OTHER -> <<>>

\* The handler call a request leads to, rd being what reading its body yields.
Dispatch(q, rd) ==
    Endpoint(q, rd.got, UpdateRequest(rd.bytes), ResetRequest(rd.bytes),
             AddBucketRequest(rd.bytes))

\* The command lines a handler call passes to create_subprocess_exec.
CommandLines(calls) ==
    IF calls = <<>> THEN <<>>
    ELSE LET commands == Before(calls[1]).commands
         IN [i \in 1..Len(commands) |-> commands[i].line]

\* The command lines the handler of a request passes to create_subprocess_exec.
Launched(q, rd) == CommandLines(Dispatch(q, rd))

\* log_requests, lines 326 and 331-332: call_next(request).  An unclassified request
\* returns what the handler gave; a classified one goes on to drain the body, or to
\* the except block when the handler raised.
CallNext(r) ==
    /\ req[r].pc = "delegated"
    /\ LET q == req[r]
           db == IF q.path = <<"api", "logs">> /\ q.method = "DELETE"
                 THEN clear_logs(DB) ELSE DB
       IN \E rd \in HandlerReads(q) : \E o \in Route(DB, q, rd) :
          \E ran \in {Launched(q, rd)} :
            IF q.info.kind = "none"
            THEN LET t == PassThrough(db, clock, q.info, o)
                 IN /\ req' = [req EXCEPT ![r] = [q EXCEPT !.read = AsRead(q, rd), !.ran = ran,
                                   !.handler = o,
                                   !.client = t.client, !.pc = "done"]]
                    /\ logs' = t.db.rows
                    /\ sqlite_sequence' = t.db.seq
            ELSE IF o.kind = "raise"
            THEN LET e == ExceptBlock(db, clock, q.info, o.exc)
                 IN /\ req' = [req EXCEPT ![r] = [q EXCEPT !.read = AsRead(q, rd), !.ran = ran,
                                   !.handler = o,
                                   !.client = e.client, !.pc = "done",
                                   !.rowids = {x.id : x \in e.db.rows \ db.rows}]]
                    /\ logs' = e.db.rows
                    /\ sqlite_sequence' = e.db.seq
            ELSE /\ req' = [req EXCEPT ![r] = [q EXCEPT !.read = AsRead(q, rd), !.ran = ran,
                                   !.handler = o,
                                !.success = (o.status < 400), !.stream = o.chunks,
                                !.response_body = <<>>, !.pc = "draining"]]
                 /\ logs' = db.rows
                 /\ sqlite_sequence' = db.seq
    /\ UNCHANGED <<clock, hist, lastRead, lastOp, served, cmd, traffic, fn>>

\* log_requests, lines 334-336: one chunk of response.body_iterator.
Drain(r) ==
    /\ req[r].pc = "draining"
    /\ req[r].stream # <<>>
    /\ req' = [req EXCEPT ![r].response_body = @ \o Head(req[r].stream),
                          ![r].stream = Tail(@)]
    /\ UNCHANGED <<logs, sqlite_sequence, clock, hist, lastRead, lastOp, served, cmd, traffic, fn>>

\* log_requests, lines 338-350: extract the message, append the entry and build the
\* outgoing response; an exception of any of these goes to the except block.
Audit(db, now, q) ==
    LET ex == extract_scoop_output(q.response_body)
        ap == append_log(db, now, q.info.operation, q.info.cmd, q.success, ex.val)
    IN IF ex.raised THEN ExceptBlock(db, now, q.info, ex.exc)
       ELSE IF ap.raised THEN ExceptBlock(db, now, q.info, ap.exc)
       ELSE [db |-> ap.db,
             client |-> NewResponse(q.response_body, q.handler.status, q.handler.headers)]

\* log_requests after the last chunk: the audit step, then the return or the raise.
Finish(r) ==
    /\ req[r].pc = "draining"
    /\ req[r].stream = <<>>
    /\ LET a == Audit(DB, clock, req[r])
       IN /\ req' = [req EXCEPT ![r].client = a.client, ![r].pc = "done",
                                ![r].rowids = {x.id : x \in a.db.rows \ logs}]
          /\ logs' = a.db.rows
          /\ sqlite_sequence' = a.db.seq
    /\ UNCHANGED <<clock, hist, lastRead, lastOp, served, cmd, traffic, fn>>

\* The state after the module is imported: init_log_db has run, no request yet.
Started ==
    /\ logs = init_log_db.rows
    /\ sqlite_sequence = init_log_db.seq
    /\ clock = 0
    /\ hist = <<>>
    /\ lastRead = [valid |-> FALSE, limit |-> 0, result |-> <<>>]
    /\ lastOp = "init"
    /\ req = [r \in Reqs |-> IdleReq]
    /\ served = 0
    /\ cmd = IdleCmd
    /\ fn = IdleFn

\* Requests served one after the other, of every kind.
Init ==
    /\ Started
    /\ traffic = [kind |-> "all", tasks |-> {1}, budget |-> MaxServed]

Next == \E r \in Reqs : Receive(r) \/ Classify(r) \/ CallNext(r) \/ Drain(r) \/ Finish(r)

vars == <<logs, sqlite_sequence, clock, hist, lastRead, lastOp, req, served, cmd, traffic,
          fn>>

Spec == Init /\ [][Next]_vars

\* Classified requests handled concurrently, one per task.
ConcInit ==
    /\ Started
    /\ traffic = [kind |-> "classified", tasks |-> Reqs, budget |-> MaxReqs]

SpecConc == ConcInit /\ [][Next]_vars

\* ------------------------------------------------------------ claims: middleware
Done(r) == req[r].pc = "done"
Classified(r) == req[r].info.kind = "op"
Responded(r) == req[r].handler.kind = "response"
\* The rows request r appended that are stored.
RowsOf(r) == {row \in logs : row.id \in req[r].rowids}

\* C1: for every request, classified or not, the response the client observes has
\* the status code, the headers (every name and value, repeated names included) and
\* the body bytes of the response the route handler produced.
C1_ResponseUnaltered ==
    \A r \in Reqs :
        (Done(r) /\ Responded(r)) => req[r].client = Untouched(req[r].handler)

\* C2: for every classified request whose handler produced a response, exactly one
\* entry is appended, after the body is drained and before the response is returned;
\* it carries the classified label and command, success is true iff status < 400 and
\* the message is the one extracted from the drained body.
C2_OneEntryPerResponse ==
    \A r \in Reqs :
        /\ (req[r].pc \in {"delegated", "draining"}) => req[r].rowids = {}
        /\ (Done(r) /\ Classified(r) /\ Responded(r)) =>
             LET ex == extract_scoop_output(Concat(req[r].handler.chunks)) IN
             /\ req[r].client.kind = "response"
             /\ Cardinality(req[r].rowids) = 1
             /\ Cardinality(RowsOf(r)) = 1
             /\ ~ex.raised
             /\ \A row \in RowsOf(r) :
                  /\ row.operation = req[r].info.operation
                  /\ row.command = req[r].info.cmd
                  /\ (row.success = 1) <=> (req[r].handler.status < 400)
                  /\ row.message = PyStr(ex.val)

\* C3: when the handler of a classified request raises, exactly one entry is
\* appended, with success false and the failure's message, and the caller gets the
\* same failure.
C3_HandlerFailureLoggedAndRaised ==
    \A r \in Reqs :
        (Done(r) /\ Classified(r) /\ req[r].handler.kind = "raise") =>
            /\ Cardinality(req[r].rowids) = 1
            /\ Cardinality(RowsOf(r)) = 1
            /\ \A row \in RowsOf(r) :
                 /\ row.operation = req[r].info.operation
                 /\ row.command = req[r].info.cmd
                 /\ row.success = 0
                 /\ row.message = req[r].handler.exc
            /\ req[r].client = ObservedFailure(req[r].handler.exc)

\* C3 witness: a classified request whose handler raised has completed.
C3_Witness ==
    \E r \in Reqs :
        /\ Done(r) /\ Classified(r) /\ req[r].handler.kind = "raise"
        /\ req[r].handler.exc # <<>>
        /\ logs # {}

\* The pairs OPERATION_MAP lists as not audited.
NotAudited == { <<"GET", <<"api", "logs">>>>, <<"DELETE", <<"api", "logs">>>>,
                <<"GET", <<"api", "settings">>>>, <<"POST", <<"api", "settings">>>> }

\* C4: a request for which classification yields no operation never appends to the
\* audit log: a step of such a request leaves the stored entries as they are, or
\* empties them when it is DELETE /api/logs; the pairs listed as not audited yield no
\* operation.
C4_UnclassifiedNeverAppends ==
    [][\A r \in Reqs :
         /\ (req'[r] # req[r] /\ req'[r].info.kind = "none") =>
              /\ sqlite_sequence' = sqlite_sequence
              /\ \/ logs' = logs
                 \/ /\ logs' = {}
                    /\ req[r].method = "DELETE" /\ req[r].path = <<"api", "logs">>
         /\ (req'[r].pc = "delegated" /\ <<req'[r].method, req'[r].path>> \in NotAudited)
              => req'[r].info.kind = "none"]_vars

\* C4 witness: an unclassified request (a reset with neither version nor target) has
\* completed while an entry of an earlier request is stored.
C4_Witness ==
    \E r \in Reqs :
        /\ Done(r) /\ req[r].info.kind = "none" /\ Responded(r)
        /\ req[r].path = <<"api", "apps", "git", "reset">>
        /\ logs # {}

\* The (success, message) the entry of a completed request has.
ExpectedSuccess(r) == Responded(r) /\ req[r].handler.status < 400
ExpectedMessage(r) ==
    IF Responded(r) THEN PyStr(extract_scoop_output(Concat(req[r].handler.chunks)).val)
    ELSE req[r].handler.exc

\* C9: once K concurrently handled classified requests have all completed, the log
\* holds exactly K entries, one per request, each with the label, command, success
\* flag and message of that one request.
C9_OneWholeEntryPerRequest ==
    ((served = traffic.budget) /\ (\A r \in traffic.tasks : Done(r))) =>
        /\ Cardinality(logs) = Cardinality(traffic.tasks)
        /\ \A r \in traffic.tasks :
             /\ Classified(r)
             /\ Cardinality(RowsOf(r)) = 1
             /\ \A row \in RowsOf(r) :
                  /\ row.operation = req[r].info.operation
                  /\ row.command = req[r].info.cmd
                  /\ (row.success = 1) <=> ExpectedSuccess(r)
                  /\ row.message = ExpectedMessage(r)
        /\ \A r1, r2 \in traffic.tasks : r1 # r2 => req[r1].rowids \cap req[r2].rowids = {}

\* C9 witness: all tasks completed, two of them with different commands and
\* outcomes, the later request's entry stored before the earlier one's.
C9_Witness ==
    /\ served = traffic.budget /\ served = MaxReqs
    /\ \A r \in traffic.tasks : Done(r)
    /\ \E r1, r2 \in traffic.tasks :
         /\ r1 < r2
         /\ req[r1].info.cmd # req[r2].info.cmd
         /\ Responded(r1) /\ req[r1].handler.status = 200
         /\ Responded(r2) /\ req[r2].handler.status = 400
         /\ \E x \in req[r1].rowids, y \in req[r2].rowids : y < x

\* C10: for every request with a body method, the bytes the handler reads are the
\* bytes the client sent: empty, valid JSON or not JSON, classified or not.
C10_HandlerReadsSentBody ==
    \A r \in Reqs :
        (req[r].method \in BodyMethods /\ req[r].read.done) =>
            req[r].read = Read(req[r].sent)

\* ------------------------------------------------------------ the audit log alone
\* Inputs of append_log in the audit-log specification.
LogEntries ==
    { [operation |-> <<"update apps">>, command |-> <<"scoop", " ", "update", " ", "git">>,
       success |-> TRUE, message |-> JStr(<<"ok">>)],
      [operation |-> <<"update apps">>, command |-> <<"scoop", " ", "update", " ", "git">>,
       success |-> FALSE, message |-> JStr(<<"failed">>)],
      [operation |-> <<"list apps">>, command |-> <<"scoop", " ", "list">>,
       success |-> TRUE, message |-> JStr(<<>>)] }
Limits == (-1)..MaxLimit

NoRead == [valid |-> FALSE, limit |-> 0, result |-> <<>>]

LogInit ==
    /\ logs = init_log_db.rows
    /\ sqlite_sequence = init_log_db.seq
    /\ clock = 0
    /\ hist = <<>>
    /\ lastRead = NoRead
    /\ lastOp = "init"
    /\ req = [r \in Reqs |-> IdleReq]
    /\ served = 0
    /\ cmd = IdleCmd
    /\ fn = IdleFn
    /\ traffic = [kind |-> "none", tasks |-> {}, budget |-> 0]

\* datetime.now() moves on between two calls, or does not.
Tick ==
    /\ clock < MaxClock
    /\ clock' = clock + 1
    /\ UNCHANGED <<logs, sqlite_sequence, hist, lastRead, lastOp, req, served, cmd, traffic, fn>>

\* A caller appends one entry.
LogAppend ==
    /\ sqlite_sequence < MaxAppends
    /\ \E e \in LogEntries :
         LET res == append_log(DB, clock, e.operation, e.command, e.success, e.message)
         IN /\ ~res.raised
            /\ logs' = res.db.rows
            /\ sqlite_sequence' = res.db.seq
            /\ hist' = Append(hist, [time |-> clock, operation |-> e.operation,
                                     command |-> e.command, success |-> e.success,
                                     message |-> e.message.s])
    /\ lastRead' = NoRead
    /\ lastOp' = "append"
    /\ UNCHANGED <<clock, req, served, cmd, traffic, fn>>

\* A caller reads the newest entries.
LogRead ==
    /\ \E limit \in Limits :
         lastRead' = [valid |-> TRUE, limit |-> limit, result |-> read_logs(DB, limit)]
    /\ lastOp' = "read"
    /\ UNCHANGED <<logs, sqlite_sequence, clock, hist, req, served, cmd, traffic, fn>>

\* A caller clears the log.
LogClear ==
    /\ lastOp # "clear"
    /\ LET db == clear_logs(DB)
       IN /\ logs' = db.rows
          /\ sqlite_sequence' = db.seq
    /\ hist' = <<>>
    /\ lastRead' = NoRead
    /\ lastOp' = "clear"
    /\ UNCHANGED <<clock, req, served, cmd, traffic, fn>>

LogNext == Tick \/ LogAppend \/ LogRead \/ LogClear

SpecLog == LogInit /\ [][LogNext]_vars

\* ------------------------------------------------------------ claims: audit log
Reverse(s) == [i \in 1..Len(s) |-> s[Len(s) + 1 - i]]

\* C5: starting from an empty log, N calls of append_log followed by read_logs(M)
\* with M >= 0 return exactly min(N, M) entries, the most recently appended ones,
\* newest first in insertion order (also when timestamps are equal).
C5_ReadReturnsNewestFirst ==
    (lastRead.valid /\ lastRead.limit >= 0) =>
        /\ Len(lastRead.result) = Min(Len(hist), lastRead.limit)
        /\ lastRead.result = SubSeq(Reverse(hist), 1, Min(Len(hist), lastRead.limit))

\* C5 witness: three appends, the first two with one timestamp and the last two
\* different entries, then a read with limit 2.
C5_Witness ==
    /\ lastRead.valid /\ lastRead.limit = 2
    /\ Len(hist) = 3
    /\ hist[1].time = hist[2].time
    /\ hist[2] # hist[3]
    /\ Len(lastRead.result) = 2

\* C6: a read that follows a clear with no append in between returns the empty
\* sequence for every limit, and only clear_logs removes a stored entry.
C6_ClearThenReadEmpty ==
    /\ [](((hist = <<>>) /\ lastRead.valid) => lastRead.result = <<>>)
    /\ [][(~(logs \subseteq logs')) => lastOp' = "clear"]_vars
    /\ [][(lastOp' = "clear") => logs' = {}]_vars

\* C6 witness: entries were appended, the log was cleared, and a read followed.
C6_Witness ==
    /\ sqlite_sequence >= 2
    /\ hist = <<>>
    /\ lastRead.valid /\ lastRead.limit = -1
    /\ lastOp = "read"

\* ------------------------------------------------------------ command invocations
\* The handler calls of the specification SpecCmd: every handler that launches a
\* command, with arguments that take each of its branches.
Calls ==
    { Call("get_installed_apps"),
      [Call("update_apps") EXCEPT !.apps = <<K("git"), K("7zip")>>],
      [Call("update_apps") EXCEPT !.apps = <<>>],
      [Call("uninstall_apps") EXCEPT !.apps = <<K("git")>>],
      [Call("hold_apps") EXCEPT !.apps = <<K("git")>>],
      [Call("unhold_apps") EXCEPT !.apps = <<K("git")>>],
      [Call("hold_app") EXCEPT !.name = K("git")],
      [Call("unhold_app") EXCEPT !.name = <<"git", ";", "calc">>],
      [Call("unhold_app") EXCEPT !.name = K("git")],
      [Call("get_available_versions") EXCEPT !.name = K("git")],
      [Call("get_available_versions") EXCEPT !.name = K("git"),
                                             !.search_command = K("scoop-search")],
      [Call("reset_app") EXCEPT !.name = K("git"), !.version = JStr(K("2.44.0"))],
      [Call("reset_app") EXCEPT !.name = K("git"), !.target_app = JStr(K("gitui"))],
      [Call("reset_app") EXCEPT !.name = K("git")],
      Call("get_buckets"),
      [Call("add_bucket") EXCEPT !.name = K("extras")],
      [Call("add_bucket") EXCEPT !.name = K("mine"),
                                 !.url = JStr(<<"https://", "example.org/mine">>)],
      [Call("remove_bucket") EXCEPT !.name = K("extras")],
      [Call("search_apps") EXCEPT !.q = K("git")],
      [Call("search_apps") EXCEPT !.q = K("git"), !.search_command = K("scoop-search")],
      [Call("search_apps") EXCEPT !.q = <<"git", ";", "calc">>],
      [Call("install_app") EXCEPT !.name = K("git"), !.version = JStr(K("2.44.0"))],
      [Call("install_app") EXCEPT !.name = K("git")],
      [Call("get_app_info") EXCEPT !.name = K("git")],
      [Call("get_app_info") EXCEPT !.name = K("git"),
            !.manifest = Dict(<< <<K("version"), JStr(K("2.44.0"))>> >>)] }

\* One process of a call: its command, where it is (not launched yet, running,
\* exited, killed, could not be launched), how it ended, whether its timeout
\* expired, and what awaiting it gave the handler once that is known.
Process(command) ==
    [command |-> command, state |-> "unstarted", fate |-> StillRunning, expired |-> FALSE,
     waited |-> FALSE, outcome |-> Completed(<<>>, <<>>, 0)]

\* A handler is called: it ends early or has commands to launch.
Invoke ==
    /\ cmd.pc = "idle"
    /\ \E c \in Calls :
         LET b == Before(c) IN
         cmd' = IF b.commands = <<>>
                THEN [IdleCmd EXCEPT !.pc = "done", !.call = c, !.result = b.early]
                ELSE [IdleCmd EXCEPT !.pc = "awaiting", !.call = c,
                         !.procs = [i \in 1..Len(b.commands) |-> Process(b.commands[i])]]
    /\ UNCHANGED <<logs, sqlite_sequence, clock, hist, lastRead, lastOp, req, served, traffic, fn>>

\* asyncio.create_subprocess_exec(*cmd, ...) starts the process.
Spawn(i) ==
    /\ i \in 1..Len(cmd.procs)
    /\ cmd.procs[i].state = "unstarted"
    /\ cmd' = [cmd EXCEPT !.procs[i].state = "running"]
    /\ UNCHANGED <<logs, sqlite_sequence, clock, hist, lastRead, lastOp, req, served, traffic, fn>>

\* asyncio.create_subprocess_exec raises: the process does not exist.
SpawnFails(i) ==
    /\ i \in 1..Len(cmd.procs)
    /\ cmd.procs[i].state = "unstarted"
    /\ cmd' = [cmd EXCEPT !.procs[i].state = "failed",
                          !.procs[i].fate = LaunchFailed(<<"[WinError 2]">>),
                          !.procs[i].waited = TRUE,
                          !.procs[i].outcome = Await(cmd.procs[i].command,
                                                     LaunchFailed(<<"[WinError 2]">>)),
                          !.order = Append(@, i)]
    /\ UNCHANGED <<logs, sqlite_sequence, clock, hist, lastRead, lastOp, req, served, traffic, fn>>

\* The process exits.  proc.communicate() returns when the handler still waits for
\* it; an abandoned process exits unobserved.
Exit(i) ==
    /\ i \in 1..Len(cmd.procs)
    /\ cmd.procs[i].state = "running"
    /\ \E f \in FatesOf(cmd.procs[i].command) :
         /\ f.kind = "exit"
         /\ cmd' = IF cmd.procs[i].waited
                   THEN [cmd EXCEPT !.procs[i].state = "exited", !.procs[i].fate = f]
                   ELSE [cmd EXCEPT !.procs[i].state = "exited", !.procs[i].fate = f,
                                    !.procs[i].waited = TRUE,
                                    !.procs[i].outcome = Await(cmd.procs[i].command, f),
                                    !.order = Append(@, i)]
    /\ UNCHANGED <<logs, sqlite_sequence, clock, hist, lastRead, lastOp, req, served, traffic, fn>>

\* asyncio.wait_for(proc.communicate(), timeout) expires while the process runs:
\* the except clause of the awaiting code runs, with proc.kill() or without.  A
\* timeout is seconds long, so every launch has been attempted by then.
Expire(i) ==
    /\ i \in 1..Len(cmd.procs)
    /\ cmd.procs[i].state = "running"
    /\ ~cmd.procs[i].waited
    /\ \A j \in 1..Len(cmd.procs) : cmd.procs[j].state # "unstarted"
    /\ LET o == Await(cmd.procs[i].command, StillRunning)
       IN cmd' = [cmd EXCEPT !.procs[i].state = IF o.killed THEN "killed" ELSE "running",
                             !.procs[i].expired = TRUE,
                             !.procs[i].waited = TRUE,
                             !.procs[i].outcome = o,
                             !.order = Append(@, i)]
    /\ UNCHANGED <<logs, sqlite_sequence, clock, hist, lastRead, lastOp, req, served, traffic, fn>>

\* The handler's await ends: with the first exception raised by a command, or with
\* the results of all commands, on which the rest of the handler runs.
Respond ==
    /\ cmd.pc = "awaiting"
    /\ LET errors == SelectSeq(cmd.order, LAMBDA i : ~cmd.procs[i].outcome.ok)
           outcomes == [i \in 1..Len(cmd.procs) |-> cmd.procs[i].outcome]
       IN /\ errors # <<>> \/ \A i \in 1..Len(cmd.procs) : cmd.procs[i].waited
          /\ cmd' = [cmd EXCEPT !.pc = "done",
                        !.result = IF errors # <<>> THEN cmd.procs[errors[1]].outcome.error
                                   ELSE After(cmd.call, outcomes)]
    /\ UNCHANGED <<logs, sqlite_sequence, clock, hist, lastRead, lastOp, req, served, traffic, fn>>

CmdInit ==
    /\ Started
    /\ traffic = [kind |-> "none", tasks |-> {}, budget |-> 0]

CmdNext ==
    \/ Invoke
    \/ \E i \in 1..2 : Spawn(i) \/ SpawnFails(i) \/ Exit(i) \/ Expire(i)
    \/ Respond

SpecCmd == CmdInit /\ [][CmdNext]_vars

\* ------------------------------------------------------------ claims: commands
Procs == 1..Len(cmd.procs)

\* C7: for every command invocation, when the command is still running as its
\* timeout expires, the process is killed, no process of it keeps running, and the
\* request fails with status 504.
C7_TimeoutKillsAndFails504 ==
    \A i \in Procs :
        cmd.procs[i].expired =>
            /\ cmd.procs[i].state = "killed"
            /\ (cmd.pc = "done" => cmd.result.kind = "http" /\ cmd.result.status_code = 504)

\* The commands of the call that the handler awaited to their exit with a non-zero
\* exit code.
ExitedNonZero ==
    {i \in Procs : cmd.procs[i].state = "exited" /\ ~cmd.procs[i].expired
                   /\ cmd.procs[i].fate.returncode # 0}

\* C8: whenever the command a handler ran completes with a non-zero exit code, the
\* request fails with status 400, the detail being the command's standard error
\* when that is not empty and a generic label otherwise, for every handler.
C8_NonZeroExitFails400 ==
    (cmd.pc = "done" /\ ExitedNonZero # {} /\ \A i \in Procs : cmd.procs[i].outcome.ok) =>
        /\ cmd.result.kind = "http"
        /\ cmd.result.status_code = 400
        /\ \E i \in ExitedNonZero :
              IF cmd.procs[i].fate.stderr # <<>>
              THEN cmd.result.detail = cmd.procs[i].fate.stderr
              ELSE cmd.result.detail # <<>>

\* ------------------------------------------------------------ functions called alone
\* No request and no handler call in progress: a function of the module is called
\* with arguments of its domain, and returns or raises.
FnInit ==
    /\ Started
    /\ traffic = [kind |-> "none", tasks |-> {}, budget |-> 0]

FnCall(name, input) == [pc |-> "called", name |-> name, input |-> input, out |-> <<>>]

\* ------------------------------------------------------------ message extraction alone
\* Largest number of fields of a response body that is a mapping.
MaxFields == 2

\* Values a field of a response body can have: texts, null, a number, a boolean,
\* the error list of a 422, lists of results with and without a message.
FieldValues ==
    { JStr(<<"Done", ".">>), JStr(<<>>), JNull, JNum("7"), JBool(TRUE), JList(<<>>),
      JList(<<Dict(<< <<K("msg"), JStr(<<"Field", " ", "required">>)>> >>)>>),
      JList(<<Dict(<< <<K("message"), JStr(<<"Updated">>)>> >>), JNull>>),
      JList(<<Dict(<< <<K("name"), JStr(<<"git">>)>> >>)>>),
      JList(<<JNum("7")>>) }

FieldNames == {K("message"), K("detail"), K("results"), K("success")}

RECURSIVE FieldLists(_)
\* The <<name, value>> lists of at most n fields (a repeated name keeps its last value).
FieldLists(n) ==
    IF n = 0 THEN {<<>>}
    ELSE LET shorter == FieldLists(n - 1)
         IN shorter \cup
            { Append(fs, <<k, v>>) : fs \in {f \in shorter : Len(f) = n - 1},
                                     k \in FieldNames, v \in FieldValues }

\* Response bodies of every variant: absent, not JSON, scalar, sequence, mapping.
ResponseBodies ==
    { <<>>, <<X("Internal Server Error")>>, <<P("{"), S(K("message"))>> }
    \cup { DumpValue(v) : v \in FieldValues \cup {JStr(K("message"))} }
    \cup { DumpValue(Dict(fs)) : fs \in FieldLists(MaxFields) }

\* extract_scoop_output is called with a response body.
CallExtract ==
    /\ fn.pc = "idle"
    /\ \E body \in ResponseBodies : fn' = FnCall("extract_scoop_output", body)
    /\ UNCHANGED <<logs, sqlite_sequence, clock, hist, lastRead, lastOp, req, served, cmd,
                   traffic>>

\* extract_scoop_output returns or raises.
ReturnExtract ==
    /\ fn.pc = "called"
    /\ fn.name = "extract_scoop_output"
    /\ fn' = [fn EXCEPT !.pc = "returned", !.out = extract_scoop_output(fn.input)]
    /\ UNCHANGED <<logs, sqlite_sequence, clock, hist, lastRead, lastOp, req, served, cmd,
                   traffic>>

ExtractNext == CallExtract \/ ReturnExtract

SpecExtract == FnInit /\ [][ExtractNext]_vars

\* ------------------------------------------------------------ claims: message extraction
\* The message the extraction is said to give for a body.
ClaimedMessage(body) ==
    LET j == json_loads(body)
        data == j.val
        has(key) == data.t = "map" /\ key \in DOMAIN data.m
        results == data.m[K("results")]
    IN IF body = <<>> THEN JStr(<<>>)
       ELSE IF j.raised THEN JStr(Decode(body))
       ELSE IF has(K("message")) THEN data.m[K("message")]
       ELSE IF has(K("detail")) THEN data.m[K("detail")]
       ELSE IF has(K("results")) /\ results.t = "list" /\ results.items # <<>>
               /\ results.items[1].t = "map"
       THEN Get(results.items[1], K("message"), JStr(<<>>))
       ELSE JStr(<<>>)

\* C11: for every response body (absent, not JSON, scalar, sequence, mapping)
\* extract_scoop_output does not raise and returns a text: the "message" field, else
\* the "detail" field, else the "message" of the first of "results" (empty text
\* without one), else empty text, and the raw text of a body that is not JSON.
C11_ExtractYieldsText ==
    (fn.name = "extract_scoop_output" /\ fn.pc = "returned") =>
        /\ ~fn.out.raised
        /\ fn.out.val.t = "str"
        /\ fn.out.val = ClaimedMessage(fn.input)

\* ------------------------------------------------------------ classification alone
\* The arguments of get_operation_info: the methods, the paths of the routes and one
\* without a route, the query parameters, and the body as log_requests buffered it
\* (any JSON value the client sent, {} without one).
ClassifyMethods == {"GET", "POST", "DELETE", "PUT"}

ClassifyPaths ==
    { <<"api", "apps">>, <<"api", "buckets">>, <<"api", "logs">>, <<"api", "settings">>,
      <<"api", "search">>, <<"api", "apps", "update">>, <<"api", "apps", "uninstall">>,
      <<"api", "apps", "install">>, <<"api", "apps", "hold">>,
      <<"api", "apps", "git", "hold">>, <<"api", "apps", "git", "reset">>,
      <<"api", "apps", "git", "versions">>, <<"api", "apps", "git", "related">>,
      <<"api", "apps", "git", "info">>, <<"api", "buckets", "extras">>, <<"api", "health">> }

ClassifyQueries == { NoQuery, [q \in {"q"} |-> <<"git">>], [q \in {"name"} |-> <<"git">>] }

ClassifyBodies ==
    { EmptyMap, JNull, JNum("7"), JList(<<JNum("1")>>),
      Dict(<< <<K("apps"), JList(<<JStr(K("git")), JStr(K("vim"))>>)>> >>),
      Dict(<< <<K("apps"), JList(<<JNum("7")>>)>> >>),
      Dict(<< <<K("apps"), JStr(K("git"))>> >>),
      Dict(<< <<K("apps"), JNull>> >>),
      Dict(<< <<K("version"), JStr(K("2.44.0"))>> >>),
      Dict(<< <<K("version"), JStr(K("2.44.0"))>>, <<K("target_app"), JStr(K("git-lfs"))>> >>),
      Dict(<< <<K("name"), JStr(K("extras"))>>, <<K("url"), JStr(<<"https://", "x.org">>)>> >>),
      Dict(<< <<K("bucket"), JStr(K("main"))>> >>) }

\* get_operation_info is called.
CallClassify ==
    /\ fn.pc = "idle"
    /\ \E method \in ClassifyMethods, path \in ClassifyPaths,
          query_params \in ClassifyQueries, body \in ClassifyBodies :
         fn' = FnCall("get_operation_info",
                      [method |-> method, path |-> path, query_params |-> query_params,
                       body |-> body])
    /\ UNCHANGED <<logs, sqlite_sequence, clock, hist, lastRead, lastOp, req, served, cmd,
                   traffic>>

\* get_operation_info returns an operation or None, or raises.
ReturnClassify ==
    /\ fn.pc = "called"
    /\ fn.name = "get_operation_info"
    /\ fn' = [fn EXCEPT !.pc = "returned",
                        !.out = get_operation_info(fn.input.method, fn.input.path,
                                                   fn.input.query_params, fn.input.body)]
    /\ UNCHANGED <<logs, sqlite_sequence, clock, hist, lastRead, lastOp, req, served, cmd,
                   traffic>>

ClassifyNext == CallClassify \/ ReturnClassify

SpecClassify == FnInit /\ [][ClassifyNext]_vars

\* ------------------------------------------------------------ claims: classification
ClassifyReturned == fn.name = "get_operation_info" /\ fn.pc = "returned"

\* The body's apps array, when the body is a mapping with a list of texts as "apps".
AppsArray(body) ==
    IF body.t = "map" /\ K("apps") \in DOMAIN body.m /\ body.m[K("apps")].t = "list"
       /\ \A i \in 1..Len(body.m[K("apps")].items) : body.m[K("apps")].items[i].t = "str"
    THEN [given |-> TRUE,
          names |-> [i \in 1..Len(body.m[K("apps")].items) |-> body.m[K("apps")].items[i].s]]
    ELSE [given |-> FALSE, names |-> <<>>]

\* C12: an exact (method, path) match takes precedence over a pattern match.  A pair
\* of the fixed table gets the table's answer (no operation for a pair that is not
\* audited); POST and DELETE /api/apps/hold are the batch hold and unhold over the
\* body's apps array, never the single-app operation on an app named "hold".
C12_ExactMatchFirst ==
    ClassifyReturned =>
        LET method == fn.input.method
            path == fn.input.path
            apps == AppsArray(fn.input.body)
            sub == IF method = "POST" THEN "hold" ELSE "unhold"
        IN /\ <<method, path>> \in OPERATION_MAP_KEYS => fn.out = OPERATION_MAP(method, path)
           /\ (<<method, path>> \in OPERATION_MAP_KEYS /\ <<method, path>> \notin
                 {<<"GET", <<"api", "apps">>>>, <<"GET", <<"api", "buckets">>>>})
                 => fn.out = NoOperation
           /\ (method \in {"POST", "DELETE"} /\ path = <<"api", "apps", "hold">>) =>
                 /\ fn.out.cmd # <<"scoop", " ", sub, " ", "hold">>
                 /\ apps.given =>
                       /\ fn.out.kind = "op"
                       /\ fn.out.cmd = <<"scoop", " ", sub, " ">> \o Join(SP, apps.names)

\* DELETE /api/apps/hold with two apps in the body was classified as the batch unhold.
C12_Witness ==
    /\ ClassifyReturned
    /\ fn.input.method = "DELETE"
    /\ fn.input.path = <<"api", "apps", "hold">>
    /\ fn.out.kind = "op"
    /\ fn.out.cmd = <<"scoop", " ", "unhold", " ", "git", " ", "vim">>

\* ------------------------------------------------------------ the routes of one app
\* Requests to the routes that run a command for one app, served one after the other.
RoutesInit ==
    /\ Started
    /\ traffic = [kind |-> "routes", tasks |-> {1}, budget |-> MaxServed]

SpecRoutes == RoutesInit /\ [][Next]_vars

\* ------------------------------------------------------------ claims: routes
IsReset(q) == q.method = "POST" /\ Len(q.path) = 4 /\ StartsWith2(q.path, "api", "apps")
              /\ q.path[4] = "reset" /\ q.body.t = "map"
\* A field of the body that is present with a text in it.
Given(q, field) == Get(q.body, K(field), JNull).t = "str" /\ Get(q.body, K(field), JNull).s # <<>>
\* A field that is absent, null or the empty text.
Missing(q, field) == Get(q.body, K(field), JNull) \in {JNull, JStr(<<>>)}

ResetOutcome ==
    \A r \in Reqs : (Done(r) /\ IsReset(req[r])) =>
        LET q == req[r]
            version == Get(q.body, K("version"), JNull)
            target_app == Get(q.body, K("target_app"), JNull)
            name == PathParam(q.path[3])
        IN /\ (Missing(q, "version") /\ Missing(q, "target_app")) =>
                 /\ q.info = NoOperation
                 /\ q.rowids = {}
                 /\ q.ran = <<>>
                 /\ q.handler.kind = "response" /\ q.handler.status = 400
                 /\ q.client.kind = "response" /\ q.client.status = 400
           /\ Given(q, "target_app") =>
                 /\ q.info.kind = "op"
                 /\ q.info.cmd = <<"scoop", " ", "reset", " ">> \o target_app.s
                 /\ q.ran = <<q.info.cmd>>
           /\ (Missing(q, "target_app") /\ Given(q, "version")) =>
                 /\ q.info.kind = "op"
                 /\ q.info.cmd = <<"scoop", " ", "reset", " ">> \o name \o <<"@">> \o version.s
                 /\ q.ran = <<q.info.cmd>>

ResetUnaudited ==
    \A r \in Reqs :
        (req[r].pc = "delegated" /\ IsReset(req[r])
         /\ Missing(req[r], "version") /\ Missing(req[r], "target_app")) => logs' = logs

\* C13: POST /api/apps/{name}/reset with neither a version nor a target application
\* in its body is not classified and writes no log entry, and its handler still runs
\* and fails with 400; with a target application the command is `scoop reset
\* <target_app>` even when a version is given too, otherwise it is `scoop reset
\* <name>@<version>`, in the log entry and in what the handler runs.
C13_ResetWithoutTargetUnaudited == []ResetOutcome /\ [][ResetUnaudited]_vars

\* A reset without version or target was answered 400 and left the log empty, after
\* an earlier reset with both a version and a target application was logged.
C13_Witness ==
    /\ Done(1)
    /\ IsReset(req[1])
    /\ Missing(req[1], "version") /\ Missing(req[1], "target_app")
    /\ req[1].sent # BodyEmptyObject
    /\ req[1].client.status = 400
    /\ Cardinality(logs) = 1
    /\ \E row \in logs : row.command = <<"scoop", " ", "reset", " ", "git-lfs">>

\* ------------------------------------------------------------ output parsers alone
\* Largest number of lines of a console output.
MaxLines == 2

\* Lines a command can print: blank, header, separator, rows of every listing, a
\* warning, a held row, a row of one token, the bucket announcement and the
\* "name (version)" row of the grouped shape, a bucket row whose fifth token is a
\* digit that is no decimal digit.
ConsoleLines ==
    { <<>>,
      <<"Name", " ", "Version", " ", "Source", " ", "Updated", " ", "Manifests">>,
      <<"-", "-", "-", " ", "-", "-", "-">>,
      <<"git", " ", "2.44.0", " ", "2.45.0">>,
      <<"git", " ", "2.44.0", " ", "2.46.0">>,
      <<"garbage">>,
      <<"WARN", " ", "Scoop", " ", "is", " ", "out">>,
      <<"vim", " ", "9.1", " ", "9.2", " ", "Held", " ", "package">>,
      <<"No", " ", "apps", " ", "are", " ", "on", " ", "hold">>,
      <<"main", " ", "https://", "github.com/ScoopInstaller/Main", " ",
        "2024-01-02", " ", "10:00:00", " ", "1407">>,
      <<"local", " ", "C:\\buckets\\local", " ", "a", " ", "b", " ", "superscript-two">>,
      <<"'", "main", "'", " ", "bucket", ":">>,
      <<" ", " ", "git", " ", "(", "2.44.0", ")">> }

\* `phrase in line` for a phrase of several pieces.
InText(phrase, line) ==
    \E i \in 1..Len(line) :
        i + Len(phrase) - 1 <= Len(line) /\ SubSeq(line, i, i + Len(phrase) - 1) = phrase

RECURSIVE parse_held(_)
\* The loop of get_held_apps over the lines of `scoop hold`: the first token of
\* each line that mentions neither "held" nor "no apps".
parse_held(lines) ==
    IF lines = <<>> THEN {}
    ELSE LET line == StripWs(Head(lines))
             rest == parse_held(Tail(lines))
         IN IF line # <<>> /\ ~In("held", Lower(line))
               /\ ~InText(<<"no", " ", "apps">>, Lower(line))
            THEN (IF Split(line) # <<>> THEN {Split(line)[1]} ELSE {<<>>}) \cup rest
            ELSE rest

\* get_held_apps, after its command: the set, with "" discarded.
get_held_apps(stdout) == parse_held(Lines(stdout)) \ {<<>>}

\* The parsing code of the module, by the function it is in; the listings of
\* versions and search results in the shape of each search tool.
Parsers ==
    { "parse_list_output", "parse_status_output", "get_held_apps", "get_buckets",
      "search_apps (scoop)", "search_apps (scoop-search)",
      "get_available_versions (scoop)", "get_available_versions (scoop-search)" }

\* What a parser returns or raises for a console output.
Parse(parser, output) ==
    CASE parser = "parse_list_output" -> Returned(parse_list_output(output))
      [] parser = "parse_status_output" -> Returned(parse_status_output(output))
      [] parser = "get_held_apps" -> Returned(get_held_apps(output))
      [] parser = "get_buckets" -> parse_buckets(Lines(output))
      [] parser = "search_apps (scoop)" ->
            Returned(parse_tabular(Lines(output), FALSE, <<>>))
      [] parser = "search_apps (scoop-search)" ->
            Returned(parse_grouped(Lines(output), K("unknown"), FALSE, <<>>))
      [] parser = "get_available_versions (scoop)" ->
            Returned(parse_tabular(Lines(output), TRUE, K("git")))
      [] parser = "get_available_versions (scoop-search)" ->
            Returned(parse_grouped(Lines(output), K("unknown"), TRUE, K("git")))

\* The command prints one more line.
PrintLine ==
    /\ fn.pc \in {"idle", "printing"}
    /\ Cardinality({i \in 1..Len(fn.input) : fn.input[i] = "\n"}) < MaxLines
    /\ \E line \in ConsoleLines :
         fn' = [IdleFn EXCEPT !.pc = "printing", !.input = fn.input \o line \o <<"\n">>]
    /\ UNCHANGED <<logs, sqlite_sequence, clock, hist, lastRead, lastOp, req, served, cmd,
                   traffic>>

\* A parser is given the output and returns or raises.
ParseOutput ==
    /\ fn.pc \in {"idle", "printing"}
    /\ \E parser \in Parsers :
         fn' = [fn EXCEPT !.pc = "returned", !.name = parser,
                          !.out = Parse(parser, fn.input)]
    /\ UNCHANGED <<logs, sqlite_sequence, clock, hist, lastRead, lastOp, req, served, cmd,
                   traffic>>

ParseNext == PrintLine \/ ParseOutput

SpecParse == FnInit /\ [][ParseNext]_vars

\* ------------------------------------------------------------ claims: output parsers
Parsed == fn.pc = "returned" /\ fn.name \in Parsers

\* The lines of a console output as the command printed them.
PrintedLines(output) ==
    IF output = <<>> THEN <<>>
    ELSE SplitOn(SubSeq(output, 1, Len(output) - 1), "\n", <<>>)

\* The parsers that give one record for a line whatever the lines around it.
LineParsers ==
    { "parse_list_output", "get_buckets", "search_apps (scoop)",
      "get_available_versions (scoop)" }

\* C14: every output parser is total: for every text (empty, a header only, lines
\* of any number of tokens) it returns a possibly empty result and does not raise;
\* a malformed line is skipped and the records of the other lines are returned, so
\* that a parser of independent lines gives the records of each line in turn.
C14_ParsersTotal ==
    Parsed =>
        /\ ~fn.out.raised
        /\ fn.name \in LineParsers =>
              LET lines == PrintedLines(fn.input)
              IN /\ \A i \in 1..Len(lines) : ~Parse(fn.name, lines[i]).raised
                 /\ fn.out.val = Concat([i \in 1..Len(lines) |-> Parse(fn.name, lines[i]).val])

\* The rows of a status output that are said to give an entry.
StatusRows(lines) ==
    { i \in 1..Len(lines) :
        LET line == StripWs(lines[i])
        IN /\ ~In("WARN", line)
           /\ ~In("Name", line) /\ ~StartsWith(line, "-")
           /\ ~In("held", Lower(line))
           /\ Len(Split(line)) >= 3 }

\* C15: parse_status_output maps token[0] to token[2] for every row of at least 3
\* tokens that is no warning, header, separator or held row, and a name that the
\* text repeats has one entry, with the value of its last row.
C15_StatusLastRowWins ==
    (Parsed /\ fn.name = "parse_status_output") =>
        LET lines == PrintedLines(fn.input)
            rows == StatusRows(lines)
            token(i, n) == Split(StripWs(lines[i]))[n]
            last(name) == CHOOSE i \in rows :
                              /\ token(i, 1) = name
                              /\ \A j \in rows : token(j, 1) = name => j <= i
        IN /\ ~fn.out.raised
           /\ DOMAIN fn.out.val = {token(i, 1) : i \in rows}
           /\ \A name \in DOMAIN fn.out.val : fn.out.val[name] = token(last(name), 3)

\* Two rows name git with different latest versions, and the mapping has the later.
C15_Witness ==
    /\ Parsed
    /\ fn.name = "parse_status_output"
    /\ fn.input = <<"git", " ", "2.44.0", " ", "2.45.0", "\n",
                    "git", " ", "2.44.0", " ", "2.46.0", "\n">>
    /\ fn.out.val = [name \in {K("git")} |-> K("2.46.0")]

\* ------------------------------------------------------------ related apps
\* The apps directory of scoop: per app directory with a `current` link, what
\* json.loads gives for its manifest.json and install.json (None for a file that is
\* missing or does not parse).  Windows finds a directory whatever the case of the
\* name asked for.
AppDirs == {"git", "vim", "nvim"}

NoDisk == [dir \in {} |-> JNull]

\* File names are texts whose separators and extension are pieces of their own.
RECURSIVE LastComponent(_)
\* Path(p).name: the pieces after the last separator.
LastComponent(path) ==
    IF \A i \in 1..Len(path) : path[i] \notin {"\\", "/"} THEN path
    ELSE LastComponent(Tail(path))

\* Path(p).stem.lower(): the last component without its extension, in lower case.
Stem(path) ==
    LET component == LastComponent(path)
        n == Len(component)
    IN Lower(IF n >= 2 /\ component[n] \in {".exe", ".EXE", ".cmd", ".ps1"}
             THEN SubSeq(component, 1, n - 1) ELSE component)

\* Manifests by the schema of scoop: `bin` a file name or a list of file names and
\* [file, alias] pairs, `env_add_path` a directory or a list of directories.
Manifests ==
    LET version == <<K("version"), JStr(K("2.44.0"))>>
        file(path) == JStr(path)
    IN { JNull, EmptyMap, Dict(<<version>>),
         Dict(<<version, <<K("bin"), file(<<"git", ".exe">>)>> >>),
         Dict(<<version, <<K("bin"), JList(<< file(<<"cmd", "\\", "Git", ".exe">>),
                    JList(<<file(<<"bin", "\\", "sh", ".exe">>), file(<<"bash">>)>>) >>)>> >>),
         Dict(<<version, <<K("bin"), file(<<"VIM", ".EXE">>)>> >>),
         Dict(<<version, <<K("bin"), JList(<<>>)>>, <<K("env_add_path"), file(<<"bin">>)>> >>),
         Dict(<< <<K("env_add_path"), JList(<<file(<<"bin">>), file(<<"missing">>)>>)>> >>) }

\* What an app directory can hold: any manifest without install.json, and one
\* manifest with the install.json of an app from the extras bucket.
AppFiles ==
    { [manifest |-> manifest, install_info |-> JNull] : manifest \in Manifests }
    \cup { [manifest |-> Dict(<< <<K("bin"), JStr(<<"bash", ".exe">>)>> >>),
            install_info |-> Dict(<< <<K("bucket"), JStr(K("extras"))>> >>)] }

\* bin_dir.glob("*.exe") with the stems in lower case: `bin` holds bash.exe and
\* Vim.exe, any other directory does not exist.
Glob(app_name, path) == IF path = <<"bin">> THEN {K("bash"), K("vim")} ELSE {}

\* The directory of an app, found without regard to case.
DirOf(disk, app_name) ==
    {dir \in DOMAIN disk : Lower(<<dir>>) = Lower(app_name)}

\* read_manifest_file(app_name)
read_manifest_file(disk, app_name) ==
    IF DirOf(disk, app_name) = {} THEN JNull
    ELSE disk[CHOOSE dir \in DirOf(disk, app_name) : TRUE].manifest

\* get_installed_apps_from_dir(): the apps whose manifest is truthy.
get_installed_apps_from_dir(disk) ==
    { [name |-> <<dir>>,
       version |-> Get(disk[dir].manifest, K("version"), JStr(K("unknown"))),
       bucket |-> IF Truthy(disk[dir].install_info)
                  THEN Get(disk[dir].install_info, K("bucket"), JStr(K("unknown")))
                  ELSE JStr(K("unknown")),
       manifest |-> disk[dir].manifest] : dir \in {d \in DOMAIN disk : Truthy(disk[d].manifest)} }

\* extract_bin_names(bin_field)
extract_bin_names(bin_field) ==
    IF ~Truthy(bin_field) THEN {}
    ELSE IF bin_field.t = "str" THEN {Stem(bin_field.s)}
    ELSE IF bin_field.t = "list"
    THEN { Stem(bin_field.items[i].s) :
             i \in {k \in 1..Len(bin_field.items) : bin_field.items[k].t = "str"} }
         \cup
         { Stem(bin_field.items[i].items[2].s) :
             i \in {k \in 1..Len(bin_field.items) :
                      bin_field.items[k].t = "list" /\ Len(bin_field.items[k].items) >= 2} }
    ELSE {}

\* get_app_executables(app_name, manifest)
get_app_executables(app_name, manifest) ==
    LET bins == extract_bin_names(Get(manifest, K("bin"), JNull))
        env_add_path == Get(manifest, K("env_add_path"), JNull)
    IN IF bins # {} \/ ~Truthy(env_add_path) THEN bins
       ELSE IF env_add_path.t = "str" THEN Glob(app_name, env_add_path.s)
       ELSE IF env_add_path.t = "list"
       THEN UNION { Glob(app_name, env_add_path.items[i].s) : i \in 1..Len(env_add_path.items) }
       ELSE {}

\* RelatedApp(name, version, bucket, shared_bins) for each installed app that shares
\* an executable with the target.
RelatedTo(name, target_bins, installed_apps) ==
    { [name |-> app.name, version |-> app.version, bucket |-> app.bucket,
       shared_bins |-> target_bins \cap get_app_executables(app.name, app.manifest)] :
      app \in { a \in installed_apps :
                  /\ Lower(a.name) # Lower(name)
                  /\ Truthy(a.manifest)
                  /\ target_bins \cap get_app_executables(a.name, a.manifest) # {} } }

\* The loop of get_related_apps without `if app_name.lower() == name.lower(): continue`.
get_related_apps_with_target(disk, name) ==
    LET target_manifest == read_manifest_file(disk, name)
        target_bins == get_app_executables(name, target_manifest)
    IN IF validate_app_name(name).raised THEN Raise(validate_app_name(name).exc)
       ELSE IF ~Truthy(target_manifest) THEN Return({})
       ELSE IF target_bins = {} THEN Return({})
       ELSE Return(RelatedTo(<<>>, target_bins, get_installed_apps_from_dir(disk)))

\* get_related_apps(name): the apps in the order the directory lists them, here as a set.
get_related_apps(disk, name) ==
    LET target_manifest == read_manifest_file(disk, name)
        target_bins == get_app_executables(name, target_manifest)
    IN IF validate_app_name(name).raised THEN Raise(validate_app_name(name).exc)
       ELSE IF ~Truthy(target_manifest) THEN Return({})
       ELSE IF target_bins = {} THEN Return({})
       ELSE Return(RelatedTo(name, target_bins, get_installed_apps_from_dir(disk)))

\* The names asked about: installed apps, one in another case, one that is not installed.
RelatedTargets == {K("git"), K("GIT"), K("vim"), K("ghost")}

\* scoop installs an app: its directory appears with its manifest and install info.
InstallApp ==
    /\ fn.pc \in {"idle", "installing"}
    /\ \E dir \in AppDirs, files \in AppFiles :
         LET disk == IF fn.pc = "idle" THEN NoDisk ELSE fn.input
         IN /\ dir \notin DOMAIN disk
            /\ fn' = [IdleFn EXCEPT !.pc = "installing",
                        !.input = [d \in DOMAIN disk \cup {dir} |->
                                      IF d = dir THEN files ELSE disk[d]]]
    /\ UNCHANGED <<logs, sqlite_sequence, clock, hist, lastRead, lastOp, req, served, cmd,
                   traffic>>

\* get_related_apps is called for a name and returns.
CallRelated ==
    /\ fn.pc = "installing"
    /\ \E name \in RelatedTargets :
         fn' = [fn EXCEPT !.pc = "returned", !.name = "get_related_apps",
                          !.input = [disk |-> fn.input, name |-> name],
                          !.out = get_related_apps(fn.input, name)]
    /\ UNCHANGED <<logs, sqlite_sequence, clock, hist, lastRead, lastOp, req, served, cmd,
                   traffic>>

RelatedNext == InstallApp \/ CallRelated

SpecRelated == FnInit /\ [][RelatedNext]_vars

\* ------------------------------------------------------------ claims: related apps
RelatedReturned == fn.pc = "returned" /\ fn.name = "get_related_apps"

\* The executable-name set of an installed app; empty for one without a manifest.
Executables(disk, app_name) ==
    IF Truthy(read_manifest_file(disk, app_name))
    THEN get_app_executables(app_name, read_manifest_file(disk, app_name))
    ELSE {}

\* C16: get_related_apps(target) returns exactly the installed apps, other than the
\* target itself compared without regard to case, whose executable-name set meets
\* the target's, each with exactly the names in both sets; an app whose set is empty
\* is never reported, and a target whose set is empty has no related apps.
C16_RelatedAreSharedExecutables ==
    RelatedReturned =>
        LET disk == fn.input.disk
            target == fn.input.name
            related == fn.out.value
            shared(dir) == Executables(disk, <<dir>>) \cap Executables(disk, target)
        IN /\ fn.out.kind = "return"
           /\ {app.name : app \in related}
                 = { <<dir>> : dir \in {d \in DOMAIN disk :
                                   Lower(<<d>>) # Lower(target) /\ shared(d) # {}} }
           /\ \A app \in related :
                 /\ app.shared_bins = shared(app.name[1])
                 /\ Executables(disk, app.name) # {}
                 /\ \A other \in related : other.name = app.name => other = app
           /\ Executables(disk, target) = {} => related = {}

\* GIT was asked about with git, vim and nvim installed: vim shares bash and is
\* related, nvim declares no executables and is not, git is the target itself.
C16_Witness ==
    /\ RelatedReturned
    /\ fn.input.name = K("GIT")
    /\ DOMAIN fn.input.disk = AppDirs
    /\ Executables(fn.input.disk, K("git")) = {K("git"), K("bash")}
    /\ Executables(fn.input.disk, K("nvim")) = {}
    /\ \E app \in fn.out.value : app.name = K("vim") /\ app.shared_bins = {K("bash")}
    /\ Cardinality(fn.out.value) = 1

\* ------------------------------------------------------------ claims: the logged command
\* C17: when the handler of a classified request launches a command, the command of
\* the audit entry is the command line the handler launched: the same subcommand and
\* arguments in the same order (for install, <name>@<version> with a version given).
C17_LoggedCommandIsExecuted ==
    \A r \in Reqs :
        (Done(r) /\ Classified(r) /\ req[r].ran # <<>>) =>
            /\ \E i \in 1..Len(req[r].ran) : req[r].ran[i] = req[r].info.cmd
            /\ \A row \in RowsOf(r) : \E i \in 1..Len(req[r].ran) : req[r].ran[i] = row.command

\* ------------------------------------------------------------ claims: the pre-handler stage
\* C18: buffering the body and classifying the request never fail, whatever the
\* method, the path and the body (absent, not JSON, a JSON scalar, sequence or
\* mapping with fields of any type): classification gives an operation or none, and
\* the request is delegated to the route handler.
C18_PreHandlerNeverFails ==
    \A r \in Reqs :
        /\ req[r].info.kind \in {"op", "none"}
        /\ Done(r) => req[r].handler.kind # "pending"

====
